---- MODULE Spec2Model ----
(***************************************************************************)
(* A model of the zune-jpeg decoder: the header parsers (DHT, DQT, SOF,    *)
(* SOS), the Huffman table builder, the bit reader, the baseline block     *)
(* decoder and the MCU orchestrator with its post-processing tasks.        *)
(*                                                                         *)
(* Values of the Rust types are modelled as follows.  A u8 is an integer   *)
(* 0..255, a u16 an integer 0..65535.  A u64 word of the bit reader is a   *)
(* sequence of 64 bits, most significant bit first.  A Result is a string: *)
(* "Ok", the name of the DecodeErrors variant, or "Panic" when the routine *)
(* unwinds instead of returning.                                           *)
(***************************************************************************)
EXTENDS Integers, Sequences, FiniteSets, TLC

VARIABLES
    reader,     \* the input: the bytes handed to the routine under way
    decoder,    \* the Decoder struct
    result,     \* what the routine under way returned ("none" while it runs)
    pc,         \* where the run is
    input,      \* what the input bytes were built from (never changes)
    stream,     \* the BitStream of the baseline decode
    locals,     \* the locals of decode_mcu_ycbcr_baseline
    pool,       \* the post-processing tasks handed to the thread pool
    global_channel  \* the pixel buffer: its length and its chunks

vars == <<reader, decoder, result, pc, input, stream, locals, pool, global_channel>>

\* What the header parsers never touch.
mcu_vars == <<stream, locals, pool, global_channel>>

(***************************************************************************)
(* Small helpers.                                                          *)
(***************************************************************************)
Max(a, b) == IF a >= b THEN a ELSE b

Min(a, b) == IF a <= b THEN a ELSE b

Pow2(n) == 2 ^ n

\* u16 arithmetic of a release build (wrapping).
WrapU16(v) == v % 65536

U16Bytes(v) == <<v \div 256, v % 256>>

\* The sequence s[1..n], or all of s when it is shorter.
Take(s, n) == SubSeq(s, 1, Min(n, Len(s)))

RECURSIVE Concat(_)
Concat(ss) == IF ss = <<>> THEN <<>> ELSE Head(ss) \o Concat(Tail(ss))

(***************************************************************************)
(* misc.rs (not among the sources): the byte readers and the zig-zag       *)
(* table, as the specification and their call sites describe them.         *)
(***************************************************************************)
read_byte(buf, pos) ==
    IF pos + 1 <= Len(buf)
    THEN [ok |-> TRUE, v |-> buf[pos + 1], pos |-> pos + 1]
    ELSE [ok |-> FALSE, v |-> 0, pos |-> pos]

read_u16_be(buf, pos) ==
    IF pos + 2 <= Len(buf)
    THEN [ok |-> TRUE, v |-> buf[pos + 1] * 256 + buf[pos + 2], pos |-> pos + 2]
    ELSE [ok |-> FALSE, v |-> 0, pos |-> pos]

\* Zig-zag position (0-based, as index + 1) -> natural position.
UN_ZIGZAG ==
    << 0,  1,  8, 16,  9,  2,  3, 10,
      17, 24, 32, 25, 18, 11,  4,  5,
      12, 19, 26, 33, 40, 48, 41, 34,
      27, 20, 13,  6,  7, 14, 21, 28,
      35, 42, 49, 56, 57, 50, 43, 36,
      29, 22, 15, 23, 30, 37, 44, 51,
      58, 59, 52, 45, 38, 31, 39, 46,
      53, 60, 61, 54, 47, 55, 62, 63 >>

(***************************************************************************)
(* decoder.rs (not among the sources): the Decoder as the specification's  *)
(* data model and the uses in headers.rs and mcu.rs describe it.           *)
(***************************************************************************)
\* headers.rs rejects a table index >= MAX_COMPONENTS as not "between 0 and 3".
MAX_COMPONENTS == 4

\* Option<T>: None is the empty sequence, Some(x) the sequence of x alone.
None == <<>>

Some(x) == <<x>>

Unwrap(o) == o[1]

NoTables == [i \in 0..(MAX_COMPONENTS - 1) |-> None]

\* The countdown of a decoder that met no DRI segment: no scan exhausts it.
TODO_UNSET == 2147483647

NewDecoder(max_width, max_height) ==
    [ info |-> [width |-> 0, height |-> 0, components |-> 0, density |-> 0],
      max_width |-> max_width,
      max_height |-> max_height,
      input_colorspace |-> "YCbCr",
      output_colorspace |-> "RGB",
      components |-> <<>>,
      h_max |-> 1,
      v_max |-> 1,
      mcu_width |-> 0,
      mcu_height |-> 0,
      mcu_x |-> 0,
      mcu_y |-> 0,
      interleaved |-> FALSE,
      qt_tables |-> NoTables,
      dc_huffman_tables |-> NoTables,
      ac_huffman_tables |-> NoTables,
      z_order |-> [i \in 0..(MAX_COMPONENTS - 1) |-> 0],
      num_scans |-> 0,
      spec_start |-> 0,
      spec_end |-> 0,
      succ_high |-> 0,
      succ_low |-> 0,
      is_progressive |-> FALSE,
      restart_interval |-> 0,
      todo |-> TODO_UNSET,
      mcu_block |-> [i \in 0..(MAX_COMPONENTS - 1) |-> <<>>] ]

\* What a parser hands back: its Result, the decoder as it left it, and the
\* number of input bytes it consumed.
Ret(res, img, pos) == [res |-> res, img |-> img, pos |-> pos]

(***************************************************************************)
(* headers.rs: un_zig_zag and parse_dqt.                                   *)
(***************************************************************************)
\* The mutant: the table is stored in the order it arrives in.
un_zig_zag_Identity(a) == [n \in 0..63 |-> a[n + 1]]

\* output[UN_ZIGZAG[i]] = a[i] for i in 0..64; output starts as zeroes.  The
\* result is indexed by natural position 0..63.
un_zig_zag(a) ==
    [n \in 0..63 |->
        LET hits == {i \in 0..63 : UN_ZIGZAG[i + 1] = n}
        IN  IF hits = {} THEN 0
            ELSE a[(CHOOSE i \in hits : \A k \in hits : k <= i) + 1]]

\* One turn of the `while qt_length > 0` loop and the turns after it.
RECURSIVE dqt_loop(_, _, _, _)
dqt_loop(buf, pos, qt_length, img) ==
    IF qt_length <= 0 THEN Ret("Ok", img, pos)
    ELSE
    LET qt_info == read_byte(buf, pos)
        precision == qt_info.v \div 16
        table_position == qt_info.v % 16
        precision_value == 64 * (precision + 1)
    IN  IF ~qt_info.ok THEN Ret("ReadError", img, pos)
        ELSE IF precision_value + 1 > qt_length THEN Ret("DqtError", img, qt_info.pos)
        ELSE IF precision = 0
        THEN IF qt_info.pos + 64 > Len(buf) THEN Ret("Format", img, qt_info.pos)
             ELSE LET qt_values == SubSeq(buf, qt_info.pos + 1, qt_info.pos + 64)
                      dct_table == un_zig_zag(qt_values)
                  IN  IF table_position >= MAX_COMPONENTS
                      THEN Ret("DqtError", img, qt_info.pos + 64)
                      ELSE dqt_loop(buf, qt_info.pos + 64,
                                    qt_length - (precision_value + 1),
                                    [img EXCEPT !.qt_tables[table_position] = Some(dct_table)])
        ELSE Ret("DqtError", img, qt_info.pos)

parse_dqt(buf, img) ==
    LET len == read_u16_be(buf, 0)
    IN  IF ~len.ok THEN Ret("Format", img, 0)
        ELSE IF len.v < 2 THEN Ret("DqtError", img, len.pos)
        ELSE dqt_loop(buf, len.pos, len.v - 2, img)

(***************************************************************************)
(* components.rs (not among the sources): Components::from, which turns    *)
(* the three bytes of a frame component into a component.  The data model  *)
(* keeps sampling factors in 1..4; the quantization table number indexes   *)
(* the four table slots.                                                   *)
(***************************************************************************)
ComponentID(id) ==
    CASE id = 1 -> "Y" [] id = 2 -> "Cb" [] id = 3 -> "Cr" [] OTHER -> "Q"

ComponentsFrom(a) ==
    LET h == a[2] \div 16
        v == a[2] % 16
    IN  IF h \in 1..4 /\ v \in 1..4 /\ a[3] < MAX_COMPONENTS
        THEN [ok |-> TRUE,
              c |-> [ id |-> a[1],
                      component_id |-> ComponentID(a[1]),
                      horizontal_sample |-> h,
                      vertical_sample |-> v,
                      quantization_table_number |-> a[3],
                      quantization_table |-> None,
                      dc_huff_table |-> 0,
                      ac_huff_table |-> 0,
                      dc_pred |-> 0,
                      width_stride |-> h ]]
        ELSE [ok |-> FALSE, c |-> None]

(***************************************************************************)
(* headers.rs: parse_start_of_frame.                                       *)
(***************************************************************************)
\* The `for _ in 0..num_components` loop that reads the components.
RECURSIVE sof_read_components(_, _, _, _)
sof_read_components(buf, pos, n, components) ==
    IF n = 0 THEN [res |-> "Ok", components |-> components, pos |-> pos]
    ELSE IF pos + 3 > Len(buf)
    THEN [res |-> "Format", components |-> components, pos |-> pos]
    ELSE LET component == ComponentsFrom(SubSeq(buf, pos + 1, pos + 3))
         IN  IF ~component.ok
             THEN [res |-> "Format", components |-> components, pos |-> pos + 3]
             ELSE sof_read_components(buf, pos + 3, n - 1,
                                      Append(components, component.c))

\* The `for component in &mut components` loop: the sampling maxima, the MCU
\* geometry and each component's quantization table.  k is the index of the
\* component the loop is at.
RECURSIVE sof_geometry(_, _, _)
sof_geometry(img, components, k) ==
    IF k > Len(components)
    THEN [res |-> "Ok", img |-> img, components |-> components]
    ELSE
    LET component == components[k]
        h_max == Max(img.h_max, component.horizontal_sample)
        v_max == Max(img.v_max, component.vertical_sample)
        mcu_width == h_max * 8
        mcu_height == v_max * 8
        mcu_x == (img.info.width + mcu_width - 1) \div mcu_width
        mcu_y == (img.info.height + mcu_height - 1) \div mcu_height
        img1 == [img EXCEPT !.h_max = h_max, !.v_max = v_max,
                            !.mcu_width = mcu_width, !.mcu_height = mcu_height,
                            !.mcu_x = mcu_x, !.mcu_y = mcu_y,
                            !.interleaved = (img.interleaved \/ h_max # 1 \/ v_max # 1)]
        qt_table == img.qt_tables[component.quantization_table_number]
    IN  IF qt_table = None
        THEN [res |-> "DqtError", img |-> img1, components |-> components]
        ELSE sof_geometry(img1,
                 [components EXCEPT ![k].quantization_table = Unwrap(qt_table),
                                    ![k].width_stride = component.width_stride * mcu_x * 8],
                 k + 1)

\* The mutant: the size limits are checked after the components are built.
parse_start_of_frame_LateLimits(buf, img) ==
    LET length == read_u16_be(buf, 0)
        dt_precision == read_byte(buf, 2)
        img_height == read_u16_be(buf, 3)
        img_width == read_u16_be(buf, 5)
        num_components == read_byte(buf, 7)
        img3 == [img EXCEPT !.info.density = dt_precision.v,
                            !.info.height = img_height.v,
                            !.info.width = img_width.v]
        img4 == [img3 EXCEPT !.info.components = num_components.v]
        comps == sof_read_components(buf, 8, num_components.v, <<>>)
    IN  IF ~length.ok THEN Ret("Format", img, 0)
        ELSE IF ~dt_precision.ok THEN Ret("ReadError", img, 2)
        ELSE IF dt_precision.v # 8 THEN Ret("SofError", img, 3)
        ELSE IF ~img_height.ok \/ ~img_width.ok THEN Ret("Format", img3, 3)
        ELSE IF ~num_components.ok THEN Ret("ReadError", img3, 7)
        ELSE IF comps.res # "Ok" THEN Ret(comps.res, img4, comps.pos)
        ELSE IF img_width.v > img.max_width \/ img_height.v > img.max_height
        THEN Ret("Format", [img4 EXCEPT !.components = comps.components], comps.pos)
        ELSE IF img_width.v = 0 \/ img_height.v = 0
        THEN Ret("ZeroError", [img4 EXCEPT !.components = comps.components], comps.pos)
        ELSE Ret("Ok", [img4 EXCEPT !.components = comps.components], comps.pos)

parse_start_of_frame(buf, img) ==
    LET length == read_u16_be(buf, 0)
        dt_precision == read_byte(buf, length.pos)
        img1 == [img EXCEPT !.info.density = dt_precision.v]
        img_height == read_u16_be(buf, dt_precision.pos)
        img2 == [img1 EXCEPT !.info.height = img_height.v]
        img_width == read_u16_be(buf, img_height.pos)
        img3 == [img2 EXCEPT !.info.width = img_width.v]
        num_components == read_byte(buf, img_width.pos)
        expected == 8 + 3 * num_components.v
        img4 == [img3 EXCEPT
                    !.input_colorspace =
                        IF num_components.v = 1 THEN "GRAYSCALE" ELSE @,
                    !.output_colorspace =
                        IF num_components.v = 1 THEN "GRAYSCALE" ELSE @,
                    !.info.components = num_components.v]
        comps == sof_read_components(buf, num_components.pos, num_components.v, <<>>)
        geo == sof_geometry(img4, comps.components, 1)
    IN  IF ~length.ok THEN Ret("Format", img, length.pos)
        ELSE IF ~dt_precision.ok THEN Ret("ReadError", img, dt_precision.pos)
        ELSE IF dt_precision.v # 8 THEN Ret("SofError", img, dt_precision.pos)
        ELSE IF ~img_height.ok THEN Ret("Format", img1, img_height.pos)
        ELSE IF ~img_width.ok THEN Ret("Format", img2, img_width.pos)
        ELSE IF img_width.v > img.max_width THEN Ret("Format", img3, img_width.pos)
        ELSE IF img_height.v > img.max_height THEN Ret("Format", img3, img_width.pos)
        ELSE IF img_width.v = 0 \/ img_height.v = 0
        THEN Ret("ZeroError", img3, img_width.pos)
        ELSE IF ~num_components.ok THEN Ret("ReadError", img3, num_components.pos)
        ELSE IF num_components.v = 0 THEN Ret("SofError", img3, num_components.pos)
        ELSE IF length.v # expected THEN Ret("SofError", img3, num_components.pos)
        ELSE IF comps.res # "Ok" THEN Ret(comps.res, img4, comps.pos)
        ELSE IF geo.res # "Ok" THEN Ret(geo.res, geo.img, comps.pos)
        ELSE Ret("Ok",
                 [geo.img EXCEPT !.qt_tables = NoTables,
                                 !.components = geo.components],
                 comps.pos)

(***************************************************************************)
(* headers.rs: parse_sos.                                                  *)
(***************************************************************************)
\* The `while j < image.info.components` search for the component with this
\* id, from index j on: the index found, info.components when there is none,
\* -1 when the search indexes past the component list.
RECURSIVE sos_find(_, _, _)
sos_find(image, id, j) ==
    IF j >= image.info.components THEN image.info.components
    ELSE IF j >= Len(image.components) THEN -1
    ELSE IF image.components[j + 1].id = id THEN j
    ELSE sos_find(image, id, j + 1)

\* The `for i in 0..ns` loop; seen is the set of ids whose flag is set.
RECURSIVE sos_components(_, _, _, _, _, _)
sos_components(buf, pos, i, ns, seen, image) ==
    IF i >= ns THEN Ret("Ok", image, pos)
    ELSE
    LET id == read_byte(buf, pos)
        y == read_byte(buf, id.pos)
        j == sos_find(image, id.v, 0)
    IN  IF ~id.ok THEN Ret("ReadError", image, pos)
        ELSE IF id.v > Len(image.components) THEN Ret("SofError", image, id.pos)
        ELSE IF id.v >= MAX_COMPONENTS THEN Ret("Panic", image, id.pos)
        ELSE IF id.v \in seen THEN Ret("SofError", image, id.pos)
        ELSE IF ~y.ok THEN Ret("ReadError", image, id.pos)
        ELSE IF j = -1 THEN Ret("Panic", image, y.pos)
        ELSE IF j = image.info.components THEN Ret("SofError", image, y.pos)
        ELSE sos_components(buf, y.pos, i + 1, ns, seen \cup {id.v},
                 [image EXCEPT !.components[j + 1].dc_huff_table = (y.v \div 16) % 16,
                               !.components[j + 1].ac_huff_table = y.v % 16,
                               !.z_order[i] = j])

\* (1..4).contains(&ns)
sos_ns_in_range(ns) == 1 <= ns /\ ns < 4

parse_sos(buf, image) ==
    LET ls == read_u16_be(buf, 0)
        ns == read_byte(buf, ls.pos)
        image1 == [image EXCEPT !.num_scans = ns.v]
        comps == sos_components(buf, ns.pos, 0, ns.v, {}, image1)
        ss == read_byte(buf, comps.pos)
        se == read_byte(buf, ss.pos)
        bit_approx == read_byte(buf, se.pos)
        image2 == [comps.img EXCEPT !.spec_start = ss.v % 64]
        image3 == [image2 EXCEPT !.spec_end = se.v % 64]
        image4 == [image3 EXCEPT !.succ_high = bit_approx.v \div 16]
        image5 == [image4 EXCEPT !.succ_low = bit_approx.v % 16]
    IN  IF ~ls.ok THEN Ret("ReadError", image, 0)
        ELSE IF ~ns.ok THEN Ret("ReadError", image, ls.pos)
        ELSE IF ls.v # 6 + 2 * ns.v THEN Ret("SosError", image1, ns.pos)
        ELSE IF ~sos_ns_in_range(ns.v) THEN Ret("SosError", image1, ns.pos)
        ELSE IF image.info.components = 0 THEN Ret("SofError", image1, ns.pos)
        ELSE IF comps.res # "Ok" THEN comps
        ELSE IF ~ss.ok THEN Ret("ReadError", comps.img, comps.pos)
        ELSE IF ~se.ok THEN Ret("ReadError", image2, ss.pos)
        ELSE IF ~bit_approx.ok THEN Ret("ReadError", image3, se.pos)
        ELSE IF image4.succ_high > 13 THEN Ret("SofError", image4, bit_approx.pos)
        ELSE IF image5.succ_low > 13 THEN Ret("SofError", image5, bit_approx.pos)
        ELSE Ret("Ok", image5, bit_approx.pos)

(***************************************************************************)
(* huffman.rs: HuffmanTable::new and make_derived_table.                   *)
(*                                                                         *)
(* bits is indexed 0..16 and values 0..255 (the symbols in order of        *)
(* increasing code length, zero after the last symbol, as parse_huffman    *)
(* fills them).                                                            *)
(***************************************************************************)
HUFF_LOOKAHEAD == 9

\* Figure C.1: the code length of each symbol, in order.
RECURSIVE huff_sizes(_, _)
huff_sizes(bits, l) ==
    IF l > 16 THEN <<>>
    ELSE [i \in 1..bits[l] |-> l] \o huff_sizes(bits, l + 1)

\* size[p] of the 257-entry array: zero from num_symbols on.
SizeAt(size, p) == IF p < Len(size) THEN size[p + 1] ELSE 0

\* The inner loop `while size[p] == si`: the codes of length si.
RECURSIVE huff_codes_of_length(_, _, _, _, _)
huff_codes_of_length(size, p, code, si, huff_code) ==
    IF SizeAt(size, p) = si /\ p < Len(size)
    THEN huff_codes_of_length(size, p + 1, code + 1, si, Append(huff_code, code))
    ELSE [p |-> p, code |-> code, huff_code |-> huff_code]

\* The mutant: a code that does not fit its length is let through.
huff_code_fits_Always(code, si) == TRUE

\* The negation of `code >= (1 << si)`.
huff_code_fits(code, si) == code < Pow2(si)

\* The outer loop `while size[p] != 0`: the codes, or an error when a code does
\* not fit its length.
RECURSIVE huff_gen_codes(_, _, _, _, _)
huff_gen_codes(size, p, code, si, huff_code) ==
    IF SizeAt(size, p) = 0 THEN [ok |-> TRUE, huff_code |-> huff_code]
    ELSE LET r == huff_codes_of_length(size, p, code, si, huff_code)
         IN  IF ~huff_code_fits(r.code, si)
             THEN [ok |-> FALSE, huff_code |-> r.huff_code]
             ELSE huff_gen_codes(size, r.p, r.code * 2, si + 1, r.huff_code)

\* The number of symbols with a code shorter than l: p at the start of turn l
\* of the loop of figure F.15.
RECURSIVE huff_first_index(_, _)
huff_first_index(bits, l) ==
    IF l <= 0 THEN 0 ELSE huff_first_index(bits, l - 1) + bits[l - 1]

\* Figure F.15, for l in 0..=16, and the entries 17.
huff_maxcode(bits, huff_code) ==
    [l \in 0..17 |->
        IF l = 17 THEN 1048575
        ELSE IF bits[l] = 0 THEN -1
        ELSE huff_code[huff_first_index(bits, l) + bits[l]]]

huff_offset(bits, huff_code) ==
    [l \in 0..17 |->
        IF l = 17 \/ bits[l] = 0 THEN 0
        ELSE huff_first_index(bits, l) - huff_code[huff_first_index(bits, l) + 1]]

\* The symbols whose code, left justified in HUFF_LOOKAHEAD bits, starts the
\* window w: the entries the filling loops write at w.
huff_writers(size, huff_code, w) ==
    {p \in 1..Len(size) :
        /\ size[p] <= HUFF_LOOKAHEAD
        /\ w \div Pow2(HUFF_LOOKAHEAD - size[p]) = huff_code[p]}

LastOf(S) == CHOOSE x \in S : \A y \in S : y <= x

huff_lookup(size, huff_code, values) ==
    [w \in 0..(Pow2(HUFF_LOOKAHEAD) - 1) |->
        LET ps == huff_writers(size, huff_code, w)
        IN  IF ps = {} THEN (HUFF_LOOKAHEAD + 1) * Pow2(HUFF_LOOKAHEAD)
            ELSE size[LastOf(ps)] * Pow2(HUFF_LOOKAHEAD) + values[LastOf(ps) - 1]]

\* One entry of fast_ac, for the window i.
huff_fast_ac_entry(size, huff_code, values, i) ==
    LET ps == huff_writers(size, huff_code, i)
        fast == LastOf(ps) - 1
        rs == values[fast]
        run == (rs \div 16) % 16
        mag_bits == rs % 16
        len == size[fast + 1]
        k0 == ((i * Pow2(len)) % Pow2(HUFF_LOOKAHEAD))
                  \div Pow2(HUFF_LOOKAHEAD - mag_bits)
        m == Pow2(mag_bits - 1)
        k == IF k0 < m THEN k0 - Pow2(mag_bits) + 1 ELSE k0
    IN  IF ps = {} \/ fast >= 255 THEN 0
        ELSE IF mag_bits # 0 /\ len + mag_bits <= HUFF_LOOKAHEAD
                /\ k >= -128 /\ k <= 127
        THEN k * 256 + run * 16 + (len + mag_bits)
        ELSE 0

huff_ac_lookup(size, huff_code, values) ==
    [i \in 0..(Pow2(HUFF_LOOKAHEAD) - 1) |->
        huff_fast_ac_entry(size, huff_code, values, i)]

\* make_derived_table: the derived table, or ok = FALSE for its Err.
make_derived_table(bits, values, is_dc) ==
    LET size == huff_sizes(bits, 1)
        num_symbols == Len(size)
        codes == huff_gen_codes(size, 0, 0, SizeAt(size, 0), <<>>)
        huff_code == codes.huff_code
    IN  IF ~codes.ok THEN [ok |-> FALSE, table |-> None]
        ELSE IF is_dc /\ \E i \in 0..(num_symbols - 1) : values[i] > 15
        THEN [ok |-> FALSE, table |-> None]
        ELSE [ok |-> TRUE,
              table |-> [ maxcode |-> huff_maxcode(bits, huff_code),
                          offset |-> huff_offset(bits, huff_code),
                          lookup |-> huff_lookup(size, huff_code, values),
                          ac_lookup |-> IF is_dc THEN None
                                        ELSE Some(huff_ac_lookup(size, huff_code, values)),
                          bits |-> bits,
                          values |-> values ]]

\* HuffmanTable::new: make_derived_table(..).expect(..) unwinds on an Err.
HuffmanTable_new(codes, values, is_dc) ==
    LET p == make_derived_table(codes, values, is_dc)
    IN  IF p.ok THEN [res |-> "Ok", table |-> p.table]
        ELSE [res |-> "Panic", table |-> None]

(***************************************************************************)
(* headers.rs: parse_huffman.                                              *)
(***************************************************************************)
RECURSIVE SumSeq(_)
SumSeq(s) == IF s = <<>> THEN 0 ELSE Head(s) + SumSeq(Tail(s))

\* The mutant: destination 3 is refused.
dht_index_ok_Below3(index) == index < MAX_COMPONENTS - 1

\* The negation of `index >= MAX_COMPONENTS`.
dht_index_ok(index) == index < MAX_COMPONENTS

\* The `while dht_length > 16` loop and the check after it.
RECURSIVE dht_loop(_, _, _, _)
dht_loop(buf, pos, dht_length, dec) ==
    IF dht_length <= 16
    THEN IF dht_length > 0 THEN Ret("HuffmanDecode", dec, pos) ELSE Ret("Ok", dec, pos)
    ELSE
    LET ht_info == read_byte(buf, pos)
        dc_or_ac == (ht_info.v \div 16) % 16
        index == ht_info.v % 16
        counts == SubSeq(buf, ht_info.pos + 1, ht_info.pos + 16)
        num_symbols == [l \in 0..16 |-> IF l = 0 THEN 0 ELSE counts[l]]
        left == dht_length - (1 + 16)
        symbols_sum == SumSeq(counts)
        first == ht_info.pos + 16
        symbols == [i \in 0..255 |-> IF i < symbols_sum THEN buf[first + i + 1] ELSE 0]
        built == HuffmanTable_new(num_symbols, symbols, dc_or_ac = 0)
    IN  IF ~ht_info.ok THEN Ret("ReadError", dec, pos)
        ELSE IF ~dht_index_ok(index) THEN Ret("HuffmanDecode", dec, ht_info.pos)
        ELSE IF dc_or_ac > 1 THEN Ret("HuffmanDecode", dec, ht_info.pos)
        ELSE IF ht_info.pos + 16 > Len(buf) THEN Ret("HuffmanDecode", dec, ht_info.pos)
        ELSE IF symbols_sum > 256 THEN Ret("HuffmanDecode", dec, first)
        ELSE IF symbols_sum > left THEN Ret("HuffmanDecode", dec, first)
        ELSE IF first + symbols_sum > Len(buf) THEN Ret("Format", dec, first)
        ELSE IF built.res # "Ok" THEN Ret(built.res, dec, first + symbols_sum)
        ELSE dht_loop(buf, first + symbols_sum, left - symbols_sum,
                 IF dc_or_ac = 0
                 THEN [dec EXCEPT !.dc_huffman_tables[index] = Some(built.table)]
                 ELSE [dec EXCEPT !.ac_huffman_tables[index] = Some(built.table)])

parse_huffman(buf, dec) ==
    LET len == read_u16_be(buf, 0)
    IN  IF ~len.ok THEN Ret("HuffmanDecode", dec, 0)
        ELSE IF len.v < 2 THEN Ret("HuffmanDecode", dec, len.pos)
        ELSE dht_loop(buf, len.pos, len.v - 2, dec)

(***************************************************************************)
(* u64 words as sequences of 64 bits, most significant bit first.          *)
(***************************************************************************)
Zero64 == [i \in 1..64 |-> 0]

\* w << n and w >> n for 0 <= n <= 64 (callers keep n below 64 where the
\* program does).
Shl(w, n) == [i \in 1..64 |-> IF i + n <= 64 THEN w[i + n] ELSE 0]

Shr(w, n) == [i \in 1..64 |-> IF i - n >= 1 THEN w[i - n] ELSE 0]

\* w.rotate_left(n)
RotateLeft(w, n) == [i \in 1..64 |-> w[((i - 1 + n) % 64) + 1]]

\* w | v for a value v of k bits (k <= 32), given as its bits.
OrLow(w, vbits) ==
    LET k == Len(vbits)
    IN  [i \in 1..64 |-> IF i > 64 - k THEN Max(w[i], vbits[i - (64 - k)]) ELSE w[i]]

ByteBits(b) == [i \in 1..8 |-> (b \div Pow2(8 - i)) % 2]

\* The value of the n most significant bits of w (n <= 16).
RECURSIVE TopBits(_, _)
TopBits(w, n) == IF n = 0 THEN 0 ELSE 2 * TopBits(w, n - 1) + w[n]

\* The value of the n least significant bits of w (n <= 16).
LowBits(w, n) == TopBits(RotateLeft(w, 64 - n), n)

\* `as i16` of an integer.
AsI16(x) == ((x + 32768) % 65536) - 32768

(***************************************************************************)
(* marker.rs (not among the sources): Marker::from_u8, as the list of      *)
(* recognised markers of the specification.                                *)
(***************************************************************************)
Marker_from_u8(b) ==
    IF b \in 208..215 THEN Some([kind |-> "RST", n |-> b - 208])
    ELSE IF b = 216 THEN Some([kind |-> "SOI", n |-> 0])
    ELSE IF b = 217 THEN Some([kind |-> "EOI", n |-> 0])
    ELSE IF b = 218 THEN Some([kind |-> "SOS", n |-> 0])
    ELSE IF b = 219 THEN Some([kind |-> "DQT", n |-> 0])
    ELSE IF b = 220 THEN Some([kind |-> "DNL", n |-> 0])
    ELSE IF b = 221 THEN Some([kind |-> "DRI", n |-> 0])
    ELSE IF b = 196 THEN Some([kind |-> "DHT", n |-> 0])
    ELSE IF b \in 192..207 THEN Some([kind |-> "SOF", n |-> b - 192])
    ELSE IF b \in 224..239 THEN Some([kind |-> "APP", n |-> b - 224])
    ELSE IF b = 254 THEN Some([kind |-> "COM", n |-> 0])
    ELSE None

(***************************************************************************)
(* bitstream.rs: BitStream.  The reader is the Cursor: its bytes and its   *)
(* position.                                                               *)
(***************************************************************************)
BitStream_new ==
    [buffer |-> Zero64, aligned_buffer |-> Zero64, bits_left |-> 0,
     marker |-> None, eob_run |-> 0]

\* read_u8: the byte at the position, zero past the end; the position moves
\* in both cases.
read_u8(rd) ==
    [v |-> IF rd.pos < Len(rd.buf) THEN rd.buf[rd.pos + 1] ELSE 0,
     rd |-> [rd EXCEPT !.pos = rd.pos + 1]]

\* a ^ b of two values of n bits.
RECURSIVE Xor(_, _, _)
Xor(a, b, n) ==
    IF n = 0 THEN 0 ELSE 2 * Xor(a \div 2, b \div 2, n - 1) + ((a + b) % 2)

\* has_zero of a u32 given as its four bytes:
\* !((((v & 0x7F7F_7F7F) + 0x7F7F_7F7F) | v) | 0x7F7F_7F7F) != 0.  The sum
\* of a byte's low seven bits and 0x7F stays below 0x100, so no carry crosses
\* a byte; the complement keeps bit 7 of a byte exactly when neither the sum
\* nor the byte has it.
has_zero(v) == \E k \in 1..4 : (v[k] % 128) + 127 < 128 /\ v[k] < 128

\* The mutant: the last of the four bytes is not looked at.
has_byte_FirstThree(b, val) == \E k \in 1..3 : b[k] = val

\* has_byte: b ^ ((!0_u32 / 255) * val) has val in each of its bytes.
has_byte(b, val) == has_zero([k \in 1..4 |-> Xor(b[k], val, 8)])

\* buf[pos..pos + 4] of the reader.
msb_buf(rd) == [k \in 1..4 |-> rd.buf[rd.pos + k]]

\* The loop `while next_byte == 0xFF` of the refill! macro.
RECURSIVE refill_skip_fill(_)
refill_skip_fill(r) ==
    IF r.v = 255 THEN refill_skip_fill(read_u8(r.rd)) ELSE r

\* One expansion of the refill! macro.  done: the macro returned from refill
\* (with res "Ok" for Ok(false), or the Format error of an unknown marker).
refill_byte(st, rd) ==
    LET b == read_u8(rd)
        buffer1 == OrLow(Shl(st.buffer, 8), ByteBits(b.v))
        bits1 == st.bits_left + 8
        st1 == [st EXCEPT !.buffer = buffer1, !.bits_left = bits1]
        nb0 == read_u8(b.rd)
        nb == refill_skip_fill(nb0)
        buffer2 == Shr(buffer1, 8)
        bits2 == bits1 - 8
        st2 == [st1 EXCEPT !.buffer = buffer2, !.bits_left = bits2,
                           !.aligned_buffer =
                               IF bits2 # 0 THEN Shl(buffer2, 64 - bits2)
                               ELSE st.aligned_buffer]
        m == Marker_from_u8(nb.v)
    IN  IF b.v # 255 THEN [done |-> FALSE, res |-> "Ok", st |-> st1, rd |-> b.rd]
        ELSE IF nb0.v = 0 THEN [done |-> FALSE, res |-> "Ok", st |-> st1, rd |-> nb0.rd]
        ELSE IF nb.v = 0 THEN [done |-> FALSE, res |-> "Ok", st |-> st1, rd |-> nb.rd]
        ELSE IF m = None THEN [done |-> TRUE, res |-> "Format", st |-> st2, rd |-> nb.rd]
        ELSE [done |-> TRUE, res |-> "Ok",
              st |-> [st2 EXCEPT !.marker = m], rd |-> nb.rd]

\* The four expansions in a row, then the aligned buffer.
RECURSIVE refill_bytes(_, _, _)
refill_bytes(st, rd, n) ==
    IF n = 0
    THEN [res |-> "Ok",
          st |-> [st EXCEPT !.aligned_buffer = Shl(st.buffer, 64 - st.bits_left)],
          rd |-> rd]
    ELSE LET Expanded(r) ==
                 IF r.done THEN [res |-> r.res, st |-> r.st, rd |-> r.rd]
                 ELSE refill_bytes(r.st, r.rd, n - 1)
         IN  Expanded(refill_byte(st, rd))

\* The mutant: a pending marker does not keep the refill from reading.
refill_ThroughMarker(st, rd) ==
    IF st.bits_left <= 32 THEN refill_bytes(st, rd, 4)
    ELSE [res |-> "Ok", st |-> st, rd |-> rd]

refill(st, rd) ==
    IF st.bits_left <= 32 /\ st.marker = None
    THEN IF rd.pos + 4 < Len(rd.buf) /\ ~has_byte(msb_buf(rd), 255)
         THEN LET bits == st.bits_left + 32
                  buffer == OrLow(Shl(st.buffer, 32),
                                  ByteBits(rd.buf[rd.pos + 1]) \o ByteBits(rd.buf[rd.pos + 2])
                                      \o ByteBits(rd.buf[rd.pos + 3])
                                      \o ByteBits(rd.buf[rd.pos + 4]))
              IN  [res |-> "Ok",
                   st |-> [st EXCEPT !.bits_left = bits, !.buffer = buffer,
                                     !.aligned_buffer = Shl(buffer, 64 - bits)],
                   rd |-> [rd EXCEPT !.pos = rd.pos + 4]]
         ELSE refill_bytes(st, rd, 4)
    ELSE IF st.marker # None
    THEN [res |-> "Ok", st |-> [st EXCEPT !.bits_left = 63], rd |-> rd]
    ELSE [res |-> "Ok", st |-> st, rd |-> rd]

\* peek_bits::<LOOKAHEAD>
peek_bits(st, lookahead) == TopBits(st.aligned_buffer, lookahead)

\* bits_left.saturating_sub(n)
saturating_sub(a, n) == Max(a - n, 0)

drop_bits(st, n) ==
    [st EXCEPT !.bits_left = saturating_sub(st.bits_left, n),
               !.aligned_buffer = Shl(st.aligned_buffer, n)]

\* get_bits: the bits read and the stream after it.
get_bits(st, n_bits) ==
    LET rotated == RotateLeft(st.aligned_buffer, n_bits)
    IN  [bits |-> LowBits(rotated, n_bits),
         st |-> [st EXCEPT !.aligned_buffer = rotated,
                           !.bits_left = saturating_sub(st.bits_left, n_bits)]]

\* get_bit: the top bit, then drop_bits(1).
get_bit(st) == [bits |-> TopBits(st.aligned_buffer, 1), st |-> drop_bits(st, 1)]

reset(st) ==
    [st EXCEPT !.bits_left = 0, !.marker = None, !.buffer = Zero64,
               !.aligned_buffer = Zero64, !.eob_run = 0]

\* a >> 31 of an i32: the sign, as -1 or 0.
Sar31(a) == (a \div 65536) \div 32768

\* a & b of two i32, bit by bit from the least significant; n bits are left
\* below the sign.
RECURSIVE And32(_, _, _)
And32(a, b, n) ==
    IF n = 0 THEN (IF a = -1 /\ b = -1 THEN -1 ELSE 0)
    ELSE 2 * And32(a \div 2, b \div 2, n - 1) + ((a % 2) * (b % 2))

\* The mutant: the value as read, without the offset of a negative one.
huff_extend_Raw(x, s) == x

\* x + (((x - (1 << (s - 1))) >> 31) & ((-1 << s) + 1))
huff_extend(x, s) == x + And32(Sar31(x - Pow2(s - 1)), ((-1) * Pow2(s)) + 1, 31)

\* The search `while code_length < 17` of decode_huff!.
RECURSIVE huff_code_length(_, _, _)
huff_code_length(table, symbol, code_length) ==
    IF code_length < 17 /\ ~(symbol < table.maxcode[code_length])
    THEN huff_code_length(table, symbol, code_length + 1)
    ELSE code_length

\* The mutant: an unmatched code yields the symbol 0 and costs no bits.
decode_huff_ZeroOnMiss(st, entry, table) ==
    LET code_length0 == entry \div Pow2(HUFF_LOOKAHEAD)
        code_length == huff_code_length(table, peek_bits(st, 16), HUFF_LOOKAHEAD + 1)
        index == peek_bits(st, 16) \div Pow2(16 - code_length)
    IN  IF code_length0 <= HUFF_LOOKAHEAD
        THEN [res |-> "Ok", symbol |-> entry % Pow2(HUFF_LOOKAHEAD),
              st |-> drop_bits(st, code_length0)]
        ELSE IF code_length = 17
        THEN [res |-> "Ok", symbol |-> 0, st |-> st]
        ELSE [res |-> "Ok",
              symbol |-> table.values[(index + table.offset[code_length]) % 256],
              st |-> drop_bits(st, code_length)]

\* decode_huff!: entry is the lookup entry of the next HUFF_LOOKAHEAD bits.
decode_huff(st, entry, table) ==
    LET code_length0 == entry \div Pow2(HUFF_LOOKAHEAD)
        code_length == huff_code_length(table, peek_bits(st, 16), HUFF_LOOKAHEAD + 1)
        index == peek_bits(st, 16) \div Pow2(16 - code_length)
    IN  IF code_length0 <= HUFF_LOOKAHEAD
        THEN [res |-> "Ok", symbol |-> entry % Pow2(HUFF_LOOKAHEAD),
              st |-> drop_bits(st, code_length0)]
        ELSE IF code_length = 17
        THEN [res |-> "HuffmanDecode", symbol |-> peek_bits(st, 16), st |-> st]
        ELSE [res |-> "Ok",
              symbol |-> table.values[(index + table.offset[code_length]) % 256],
              st |-> drop_bits(st, code_length)]

\* dc: the prediction after wrapping_add (the sums of the model stay far
\* inside i32).
decode_dc(st, rd, dc_table, dc_prediction) ==
    \* f: the refill, h: the symbol, g: its extra bits.
    LET Extended(f, h, g) ==
            LET diff == IF h.symbol # 0 THEN huff_extend(g.bits, h.symbol) ELSE 0
            IN  [res |-> "Ok", st |-> IF h.symbol # 0 THEN g.st ELSE h.st, rd |-> f.rd,
                 dc |-> dc_prediction + diff]
        Decoded(f, h) ==
            IF h.res # "Ok"
            THEN [res |-> h.res, st |-> h.st, rd |-> f.rd, dc |-> dc_prediction]
            ELSE Extended(f, h, get_bits(h.st, h.symbol))
        Refilled(f) ==
            IF f.res # "Ok"
            THEN [res |-> f.res, st |-> f.st, rd |-> f.rd, dc |-> dc_prediction]
            ELSE Decoded(f, decode_huff(f.st,
                                        dc_table.lookup[peek_bits(f.st, HUFF_LOOKAHEAD)],
                                        dc_table))
    IN  Refilled(IF st.bits_left < 16 THEN refill(st, rd)
                 ELSE [res |-> "Ok", st |-> st, rd |-> rd])

\* decode_prog_dc_first: decode_dc, then the block's DC coefficient is the
\* prediction as i16, wrapping_mul'ed by 1 << successive_low.
decode_prog_dc_first(st, rd, dc_table, dc_prediction, successive_low) ==
    LET Scaled(r) ==
            [res |-> r.res, st |-> r.st, rd |-> r.rd, dc |-> r.dc,
             block |-> AsI16(AsI16(r.dc) * Pow2(successive_low))]
    IN  Scaled(decode_dc(st, rd, dc_table, dc_prediction))

\* decode_prog_dc_refine: `*block += 1 << successive_low` is a checked or a
\* wrapping addition, as the build has it.
decode_prog_dc_refine(st, rd, block, successive_low, wrapping) ==
    LET Added(t, r, sum) ==
            IF sum \in -32768..32767
            THEN [res |-> "Ok", st |-> t, rd |-> r, block |-> sum]
            ELSE [res |-> IF wrapping THEN "Ok" ELSE "Panic",
                  st |-> t, rd |-> r, block |-> AsI16(sum)]
        Bit(f, g) ==
            IF g.bits = 1 THEN Added(g.st, f.rd, block + Pow2(successive_low))
            ELSE [res |-> "Ok", st |-> g.st, rd |-> f.rd, block |-> block]
        Refilled(f) ==
            IF f.res # "Ok" THEN [res |-> f.res, st |-> f.st, rd |-> f.rd, block |-> block]
            ELSE Bit(f, get_bit(f.st))
    IN  Refilled(IF st.bits_left < 1 THEN refill(st, rd)
                 ELSE [res |-> "Ok", st |-> st, rd |-> rd])

\* block with the entry at natural position UN_ZIGZAG[zz] & 63 set to v.
StoreCoefficient(block, zz, v) == [block EXCEPT ![UN_ZIGZAG[zz + 1] % 64] = v]

\* The loop `while pos < 64` of decode_mcu_block.
RECURSIVE decode_ac(_, _, _, _, _)
decode_ac(st, rd, ac_table, block, pos) ==
    IF pos >= 64 THEN [res |-> "Ok", st |-> st, rd |-> rd, block |-> block]
    ELSE
    \* f: the refill, h: the symbol of the slow path, g: its extra bits.
    LET Extended(f, h, g) ==
            LET r == h.symbol \div 16
                size == h.symbol % 16
                spos == pos + r
                sblock == StoreCoefficient(block, spos % 64,
                                           AsI16(huff_extend(g.bits, size)))
            IN  IF size # 0 THEN decode_ac(g.st, f.rd, ac_table, sblock, spos + 1)
                ELSE IF r # 15
                THEN [res |-> "Ok", st |-> h.st, rd |-> f.rd, block |-> block]
                ELSE decode_ac(h.st, f.rd, ac_table, block, pos + 16)
        Slow(f, h) ==
            IF h.res # "Ok"
            THEN [res |-> h.res, st |-> h.st, rd |-> f.rd, block |-> block]
            ELSE Extended(f, h, get_bits(h.st, h.symbol % 16))
        Fast(f, fast_ac) ==
            LET fpos == pos + ((fast_ac \div 16) % 64)
                fblock == StoreCoefficient(block, Min(fpos, 63), fast_ac \div 1024)
            IN  decode_ac(drop_bits(f.st, fast_ac % 16), f.rd, ac_table, fblock, fpos + 1)
        Looked(f, window, fast_ac) ==
            IF fast_ac # 0 THEN Fast(f, fast_ac)
            ELSE Slow(f, decode_huff(f.st, ac_table.lookup[window], ac_table))
        Refilled(f) ==
            IF f.res # "Ok"
            THEN [res |-> f.res, st |-> f.st, rd |-> f.rd, block |-> block]
            ELSE Looked(f, peek_bits(f.st, HUFF_LOOKAHEAD),
                        Unwrap(ac_table.ac_lookup)[peek_bits(f.st, HUFF_LOOKAHEAD)])
    IN  Refilled(refill(st, rd))

\* decode_mcu_block: block is tmp (64 zeroes at the call), indexed 0..63.
decode_mcu_block(st, rd, dc_table, ac_table, block, dc_prediction) ==
    LET WithAc(d, a) ==
            [res |-> a.res, st |-> a.st, rd |-> a.rd, block |-> a.block, dc |-> d.dc]
        WithDc(d) ==
            IF d.res # "Ok"
            THEN [res |-> d.res, st |-> d.st, rd |-> d.rd, block |-> block, dc |-> d.dc]
            ELSE WithAc(d, decode_ac(d.st, d.rd, ac_table,
                                     [block EXCEPT ![0] = AsI16(d.dc)], 1))
    IN  WithDc(decode_dc(st, rd, dc_table, dc_prediction))

\* a * (1 << shift) on i16: the product, wrapped or unwinding (as the build
\* checks overflow or not) when it leaves the 16 bits.
scale_i16(a, shift, wrapping) ==
    IF a * Pow2(shift) \in -32768..32767
    THEN [ok |-> TRUE, v |-> a * Pow2(shift)]
    ELSE [ok |-> wrapping, v |-> AsI16(a * Pow2(shift))]

\* The loop 'block of decode_mcu_ac_first, entered with the position k.
RECURSIVE ac_first_loop(_, _, _, _, _, _, _, _)
ac_first_loop(st, rd, ac_table, block, k, spec_end, shift, wrapping) ==
    LET Out(res, t, r, b) == [res |-> res, st |-> t, rd |-> r, block |-> b]
        \* the test `if k > self.spec_end` at the end of a turn
        Turn(t, r, b, k1) ==
            IF k1 > spec_end THEN Out("Ok", t, r, b)
            ELSE ac_first_loop(t, r, ac_table, b, k1, spec_end, shift, wrapping)
        Stored(t, r, zz, c, k1) ==
            IF ~c.ok THEN Out("Panic", t, r, block)
            ELSE Turn(t, r, StoreCoefficient(block, zz, c.v), k1)
        EobRun(r, g, run) ==
            Out("Ok", [g.st EXCEPT !.eob_run = Pow2(run) + g.bits - 1], r, block)
        Extended(f, h, g) ==
            LET r == h.symbol \div 16
                size == h.symbol % 16
            IN  IF size # 0
                THEN Stored(g.st, f.rd, (k + r) % 64,
                            scale_i16(AsI16(huff_extend(g.bits, size)), shift, wrapping),
                            k + r + 1)
                ELSE IF r # 15 THEN EobRun(f.rd, get_bits(h.st, r), r)
                ELSE Turn(h.st, f.rd, block, k + 16)
        Slow(f, h) ==
            IF h.res # "Ok" THEN Out(h.res, h.st, f.rd, block)
            ELSE Extended(f, h, get_bits(h.st, h.symbol % 16))
        Fast(f, fac) ==
            Stored(drop_bits(f.st, fac % 16), f.rd,
                   Min(k + ((fac \div 16) % 64), 63),
                   scale_i16(fac \div 1024, shift, wrapping),
                   k + ((fac \div 16) % 64) + 1)
        Looked(f, window, fac) ==
            IF fac # 0 THEN Fast(f, fac)
            ELSE Slow(f, decode_huff(f.st, ac_table.lookup[window], ac_table))
        Refilled(f) ==
            IF f.res # "Ok" THEN Out(f.res, f.st, f.rd, block)
            ELSE Looked(f, peek_bits(f.st, HUFF_LOOKAHEAD),
                        Unwrap(ac_table.ac_lookup)[peek_bits(f.st, HUFF_LOOKAHEAD)])
    IN  Refilled(refill(st, rd))

\* decode_mcu_ac_first of a stream made by new_progressive(_, successive_low,
\* spec_start, spec_end).
decode_mcu_ac_first(st, rd, ac_table, block, spec_start, spec_end, successive_low, wrapping) ==
    ac_first_loop(st, rd, ac_table, block, spec_start, spec_end,
                  successive_low, wrapping)

(***************************************************************************)
(* Code that is not among the sources (misc.rs, decoder.rs, worker.rs), as *)
(* the specification and the call sites in mcu.rs describe it.             *)
(***************************************************************************)
\* ColorSpace::num_components
num_components(colorspace) ==
    CASE colorspace = "GRAYSCALE" -> 1
      [] colorspace \in {"RGBA", "RGBX", "YCCK", "CMYK"} -> 4
      [] OTHER -> 3

\* set_upsampling: the subsampling ratio of the sampling maxima.
sub_sample_ratio(dec) ==
    CASE dec.h_max = 1 /\ dec.v_max = 1 -> "None"
      [] dec.h_max = 2 /\ dec.v_max = 1 -> "H"
      [] dec.h_max = 1 /\ dec.v_max = 2 -> "V"
      [] dec.h_max = 2 /\ dec.v_max = 2 -> "HV"
      [] OTHER -> "Other"

\* The DRI segment: the restart interval and the countdown.
set_restart_interval(dec, n) ==
    IF n = 0 THEN dec ELSE [dec EXCEPT !.restart_interval = n, !.todo = n]

(***************************************************************************)
(* idct/scalar.rs.  i32 values are kept as integers; sums and products are *)
(* formed from 16-bit limbs, so that no intermediate value leaves 32 bits. *)
(***************************************************************************)
Lo16(a) == a % 65536

Hi16(a) == a \div 65536

\* The i32 with the limbs hi and lo (lo of any size, carried into hi),
\* wrapped; and whether the exact value is an i32.
Wrap32(hi, lo) == AsI16(hi + (lo \div 65536)) * 65536 + (lo % 65536)

Fits32(hi, lo) == (hi + (lo \div 65536)) \in -32768..32767

\* a + b, a - b and a * c (|c| < 2^15) on i32, wrapped; o: the exact result
\* is no i32 (an overflow: a panic where the build checks, else the wrap).
add32(a, b) ==
    [v |-> Wrap32(Hi16(a) + Hi16(b), Lo16(a) + Lo16(b)),
     o |-> ~Fits32(Hi16(a) + Hi16(b), Lo16(a) + Lo16(b))]

sub32(a, b) ==
    [v |-> Wrap32(Hi16(a) - Hi16(b), Lo16(a) - Lo16(b)),
     o |-> ~Fits32(Hi16(a) - Hi16(b), Lo16(a) - Lo16(b))]

mul32(a, c) ==
    [v |-> Wrap32(Hi16(a) * c, Lo16(a) * c),
     o |-> ~Fits32(Hi16(a) * c, Lo16(a) * c)]

\* wrapping_mul, and fsh (x << 12): never an overflow.
wrapping_mul(a, c) == [v |-> mul32(a, c).v, o |-> FALSE]

fsh(x) == wrapping_mul(x, 4096)

\* x op y on results that carry their overflow.
Then2(op(_, _), x, y) == [v |-> op(x.v, y.v).v, o |-> x.o \/ y.o \/ op(x.v, y.v).o]

Plus(x, y) == Then2(add32, x, y)

Minus(x, y) == Then2(sub32, x, y)

\* x * c, checked, or wrapping when wraps.
Times(x, c, wraps) ==
    [v |-> mul32(x.v, c).v, o |-> x.o \/ (~wraps /\ mul32(x.v, c).o)]

Exact(a) == [v |-> a, o |-> FALSE]

\* dequantize(a, b): i32::from(a) * b.
dequantize(a, b) == mul32(b, a)

SCALE_BITS == 512 + 65536 + (128 * Pow2(17))

\* f2f(1.175875602): (x * 4096.0 + 0.5) as i32.
F2F_1_175875602 == 4816

clamp(a) == Min(Max(a, 0), 255)

\* One column (lines 79-167) or one row (lines 170-274) of the transform of
\* s[0..7]: the eight sums before the final shift.  bias is 512 or SCALE_BITS;
\* even_wraps says that (p2 + p3) * 2217 is a wrapping_mul (the columns),
\* odd_wraps that t0..t3 are scaled with wrapping_mul (the rows).
\* Eight values F(0) .. F(7) as a tuple; element k is at index k + 1.
Tuple8(F(_)) == <<F(0), F(1), F(2), F(3), F(4), F(5), F(6), F(7)>>

idct_1d(s, bias, even_wraps, odd_wraps) ==
    LET Even(p1, t0, t1) ==
            LET t2 == Plus(p1, Times(s[7], -7567, FALSE))
                t3 == Plus(p1, Times(s[3], 3135, FALSE))
            IN  [x0 |-> Plus(Plus(t0, t3), Exact(bias)),
                 x3 |-> Plus(Minus(t0, t3), Exact(bias)),
                 x1 |-> Plus(Plus(t1, t2), Exact(bias)),
                 x2 |-> Plus(Minus(t1, t2), Exact(bias))]
        Odd(p1, p2, p3, p4, p5) ==
            LET q1 == Plus(p5, Times(p1, -3685, FALSE))
                q2 == Plus(p5, Times(p2, -10497, FALSE))
                q3 == Times(p3, -8034, FALSE)
                q4 == Times(p4, -1597, FALSE)
            IN  [t3 |-> Plus(Times(s[2], 6149, odd_wraps), Plus(q1, q4)),
                 t2 |-> Plus(Times(s[4], 12586, odd_wraps), Plus(q2, q3)),
                 t1 |-> Plus(Times(s[6], 8410, odd_wraps), Plus(q2, q4)),
                 t0 |-> Plus(Times(s[8], 1223, odd_wraps), Plus(q1, q3))]
        OddOf(p3, p4) ==
            Odd(Plus(s[8], s[2]), Plus(s[6], s[4]), p3, p4,
                Times(Plus(p3, p4), F2F_1_175875602, FALSE))
        Out(x, t) ==
            <<Plus(x.x0, t.t3), Plus(x.x1, t.t2), Plus(x.x2, t.t1),
              Plus(x.x3, t.t0), Minus(x.x3, t.t0), Minus(x.x2, t.t1),
              Minus(x.x1, t.t2), Minus(x.x0, t.t3)>>
    IN  Out(Even(Times(Plus(s[3], s[7]), 2217, even_wraps),
                 [v |-> fsh(Plus(s[1], s[5]).v).v, o |-> Plus(s[1], s[5]).o],
                 [v |-> fsh(Minus(s[1], s[5]).v).v, o |-> Minus(s[1], s[5]).o]),
            OddOf(Plus(s[8], s[4]), Plus(s[6], s[2])))

\* dequantize_and_idct_int of one block of 64 coefficients (stride 8, one
\* block per row of MCUs): out, the 64 samples, and o, whether an operation
\* that the build may check overflowed.  vector and qt_table are indexed
\* 0..63.
dequantize_and_idct_int(vector, qt_table) ==
    IF \A i \in 1..63 : vector[i] = 0
    THEN [out |-> [k \in 0..63 |->
                     (AsI16(vector[0] * AsI16(qt_table[0])) \div 8) + 128],
          o |-> FALSE]
    ELSE
    LET Column(ptr) ==
            idct_1d(Tuple8(LAMBDA k : dequantize(vector[ptr + 8 * k],
                                                 qt_table[ptr + 8 * k])),
                    512, TRUE, FALSE)
        Row(cols, r) ==
            idct_1d(Tuple8(LAMBDA k : Exact(cols[k + 1][r + 1].v \div 1024)),
                    SCALE_BITS, FALSE, TRUE)
        Samples(cols, rows) ==
            [out |-> [k \in 0..63 |->
                        clamp(rows[(k \div 8) + 1][(k % 8) + 1].v \div Pow2(17))],
             o |-> \E a, b \in 1..8 : cols[a][b].o \/ rows[a][b].o]
        Rows(cols) == Samples(cols, Tuple8(LAMBDA r : Row(cols, r)))
    IN  Rows(Tuple8(Column))

\* idct/scalar.rs, the zero-AC path:
\* (vector[0].wrapping_mul(qt_table.0[0] as i16) >> 3) + 128, unclamped.
idct_dc(dc, qt0) == (AsI16(dc * AsI16(qt0)) \div 8) + 128

\* The samples a block of 64 coefficients turns into: the broadcast sample
\* when the AC coefficients are zero, else the dequantized block.
idct_block(coeffs, first, qt) ==
    IF \A i \in 1..63 : coeffs[first + i] = 0
    THEN <<idct_dc(coeffs[first], qt[0])>>
    ELSE [i \in 1..64 |-> coeffs[first + i - 1] * qt[i - 1]]

\* post_process: what the task writes into its chunk, from its own copy of
\* the coefficients and the shared components.
post_process(block, components, output) ==
    [pos \in 0..(Min(num_components(output), Len(components)) - 1) |->
        [b \in 0..((Len(block[pos]) \div 64) - 1) |->
            idct_block(block[pos], b * 64 + 1, components[pos + 1].quantization_table)]]

(***************************************************************************)
(* mcu.rs: check_tables and decode_mcu_ycbcr_baseline.                     *)
(***************************************************************************)
DCT_BLOCK == 64

\* tables.get(index): an index past the slots, or an empty slot, is an error.
table_missing(tables, index) == index >= MAX_COMPONENTS \/ tables[index] = None

RECURSIVE check_tables_from(_, _)
check_tables_from(dec, i) ==
    IF i >= num_components(dec.input_colorspace) THEN "Ok"
    ELSE IF i >= Len(dec.components) THEN "Panic"
    ELSE IF table_missing(dec.dc_huffman_tables, dec.components[i + 1].dc_huff_table)
    THEN "HuffmanDecode"
    ELSE IF table_missing(dec.ac_huffman_tables, dec.components[i + 1].ac_huff_table)
    THEN "HuffmanDecode"
    ELSE check_tables_from(dec, i + 1)

check_tables(dec) == check_tables_from(dec, 0)

\* The component at pos has a block of its own: min(n - 1, pos) == pos.
stores_component(dec, pos) == pos <= num_components(dec.output_colorspace) - 1

\* Lines 134-225: the geometry, the buffers and check_tables.  wrapping says
\* whether the build wraps u16 arithmetic (else an overflow unwinds).  loc
\* holds the locals of the function.
mcu_setup(dec, wrapping) ==
    LET ratio == sub_sample_ratio(dec)
        w7 == dec.info.width + 7
        h7 == dec.info.height + 7
        overflow == w7 > 65535 \/ h7 > 65535
        mcu_width == IF dec.interleaved
                     THEN IF ratio = "H" THEN dec.mcu_x * 2 ELSE dec.mcu_x
                     ELSE WrapU16(w7) \div 8
        mcu_height == IF dec.interleaved
                      THEN IF ratio \in {"H", "HV"} THEN dec.mcu_y \div 2 ELSE dec.mcu_y
                      ELSE WrapU16(h7) \div 8
        bias == IF dec.interleaved /\ ratio = "HV" THEN 2 ELSE 1
        capacity == WrapU16(w7) * WrapU16(h7)
        component_capacity == mcu_width * DCT_BLOCK
        nout == num_components(dec.output_colorspace)
        mcu_block ==
            [pos \in 0..(MAX_COMPONENTS - 1) |->
                IF pos < Len(dec.components) /\ stores_component(dec, pos)
                THEN [i \in 1..(component_capacity
                                * dec.components[pos + 1].vertical_sample
                                * dec.components[pos + 1].horizontal_sample * bias) |-> 0]
                ELSE dec.mcu_block[pos]]
        chunk_size == dec.info.width * nout * 8 * dec.h_max * dec.v_max
        loc == [mcu_width |-> mcu_width, mcu_height |-> mcu_height, bias |-> bias,
                width_stride |-> Len(mcu_block[0]) \div 2,
                hv_width_stride |-> Len(mcu_block[0]) \div 4,
                is_hv |-> (ratio = "HV"),
                chunks |-> (capacity * nout) \div chunk_size,
                rows |-> 0, ret |-> "none", global_component |-> dec.components]
        dec1 == [dec EXCEPT !.mcu_block = mcu_block]
    IN  IF overflow /\ ~wrapping
        THEN [res |-> "Panic", dec |-> dec, loc |-> loc, len |-> 0]
        ELSE [res |-> check_tables(dec1), dec |-> dec1, loc |-> loc,
              len |-> capacity * nout]

\* mcu_block[pos][start..start + 64].copy_from_slice(&tmp); start is 0-based.
copy_from_slice(vec, start, tmp) ==
    [i \in 1..Len(vec) |->
        IF i > start /\ i <= start + 64 THEN tmp[i - start - 1] ELSE vec[i]]

ZeroBlock == [i \in 0..63 |-> 0]

\* The loops over v_samp and h_samp of one component: n counts the blocks.
\* m holds the stream st, the reader rd and the decoder dec.
RECURSIVE decode_blocks(_, _, _, _, _, _)
decode_blocks(m, loc, pos, v, j, n) ==
    LET component == m.dec.components[pos + 1]
    IN
    IF n >= component.vertical_sample * component.horizontal_sample
    THEN [res |-> "Ok", m |-> m]
    ELSE
    LET v_samp == n \div component.horizontal_sample
        h_samp == n % component.horizontal_sample
        is_y == IF component.component_id = "Y" THEN 1 ELSE 0
        hv == IF loc.is_hv THEN 1 ELSE 0
        y_offset == is_y * v * (loc.hv_width_stride
                       + (loc.hv_width_stride * (component.vertical_sample - 1)))
        another_stride == (loc.width_stride * v_samp * (1 - hv))
                              + loc.hv_width_stride * v_samp * hv
        yet_another_stride == hv * (loc.width_stride \div 4) * v * (1 - is_y)
        start == (j * 64 * component.horizontal_sample) + (h_samp * 64)
                     + another_stride + y_offset + yet_another_stride
        \* d: the decoded block, m1: the state after it.
        Stored(d, m1) ==
            IF d.res # "Ok" THEN [res |-> d.res, m |-> m1]
            ELSE IF ~stores_component(m.dec, pos)
            THEN decode_blocks(m1, loc, pos, v, j, n + 1)
            ELSE IF start + 64 > Len(m.dec.mcu_block[pos])
            THEN [res |-> "Panic", m |-> m1]
            ELSE decode_blocks(
                     [m1 EXCEPT !.dec.mcu_block[pos] =
                                    copy_from_slice(m.dec.mcu_block[pos], start, d.block)],
                     loc, pos, v, j, n + 1)
        Decoded(d) ==
            Stored(d, [st |-> d.st, rd |-> d.rd,
                       dec |-> [m.dec EXCEPT !.components[pos + 1].dc_pred = d.dc]])
    IN  Decoded(decode_mcu_block(m.st, m.rd,
                    Unwrap(m.dec.dc_huffman_tables[component.dc_huff_table]),
                    Unwrap(m.dec.ac_huffman_tables[component.ac_huff_table]),
                    ZeroBlock, component.dc_pred))

\* Lines 306-339, after the blocks of the component at pos: the countdown
\* goes down once per component.  brk: break 'rst.
service_restart(m) ==
    LET todo == m.dec.todo - 1
        marker == m.st.marker
        reload == [m EXCEPT !.dec.todo = m.dec.restart_interval]
    IN  IF todo # 0
        THEN [res |-> "Ok", brk |-> FALSE, m |-> [m EXCEPT !.dec.todo = todo]]
        ELSE IF marker = None THEN [res |-> "Ok", brk |-> FALSE, m |-> reload]
        ELSE IF Unwrap(marker).kind = "RST"
        THEN [res |-> "Ok", brk |-> TRUE,
              m |-> [reload EXCEPT
                        !.st = reset(m.st),
                        !.dec.components =
                            [k \in 1..Len(m.dec.components) |->
                                [m.dec.components[k] EXCEPT !.dc_pred = 0]]]]
        ELSE IF Unwrap(marker).kind = "EOI" THEN [res |-> "Ok", brk |-> FALSE, m |-> reload]
        ELSE [res |-> "MCUError", brk |-> FALSE, m |-> reload]

\* The loop 'rst over the components of one MCU, from pos on.
RECURSIVE decode_mcu(_, _, _, _, _)
decode_mcu(m, loc, v, j, pos) ==
    IF pos >= num_components(m.dec.input_colorspace) THEN [res |-> "Ok", m |-> m]
    ELSE LET Counted(r) ==
                 IF r.res # "Ok" \/ r.brk THEN [res |-> r.res, m |-> r.m]
                 ELSE decode_mcu(r.m, loc, v, j, pos + 1)
             Decoded(b) == IF b.res # "Ok" THEN b ELSE Counted(service_restart(b.m))
         IN  Decoded(decode_blocks(m, loc, pos, v, j, 0))

\* The loops over v and j of one MCU row: n counts the MCUs.
RECURSIVE decode_mcu_row(_, _, _)
decode_mcu_row(m, loc, n) ==
    IF n >= loc.bias * loc.mcu_width THEN [res |-> "Ok", m |-> m]
    ELSE LET Decoded(r) == IF r.res # "Ok" THEN r ELSE decode_mcu_row(r.m, loc, n + 1)
         IN  Decoded(decode_mcu(m, loc, n \div loc.mcu_width, n % loc.mcu_width, 0))

(***************************************************************************)
(* The inputs of the header parsers: segments built from a few parameters, *)
(* as the bytes that follow the segment's marker.                          *)
(***************************************************************************)
SeqsUpTo(S, n) == UNION {[1..k -> S] : k \in 0..n}

\* The bytes that follow a segment in the file: nothing, or the next marker.
Trailers == {<<>>, <<255, 218>>}

ErrorValues ==
    {"Format", "ReadError", "SofError", "SosError", "DqtError", "ZeroError",
     "HuffmanDecode", "MCUError"}

\* No baseline decode is under way.
NoChannel == [len |-> 0, chunks |-> <<>>]

NoMcu ==
    /\ stream = BitStream_new
    /\ locals = <<>>
    /\ pool = <<>>
    /\ global_channel = NoChannel

\* ---- DQT ----
MaxDqtTables == 2

\* The 64 values of a quantization table, in zig-zag order.
QtPattern(m) == [i \in 1..64 |-> (m * i) % 256]

\* The table at destination `dest` with precision nibble `precision`.
DqtTableBytes(t) ==
    <<t.precision * 16 + t.dest>>
        \o IF t.precision = 0 THEN QtPattern(t.pattern)
           ELSE QtPattern(t.pattern) \o QtPattern(t.pattern)

DqtTableSpecs ==
    [precision : {0}, dest : {0, 3, 4}, pattern : {1, 5}]
        \cup [precision : {1}, dest : {0}, pattern : {1}]

\* delta is added to the length the tables need.
DqtInputs ==
    [kind : {"DQT"}, tables : SeqsUpTo(DqtTableSpecs, MaxDqtTables),
     delta : {-1, 0, 1}, trailer : Trailers]

RECURSIVE DqtBody(_)
DqtBody(tables) ==
    IF tables = <<>> THEN <<>>
    ELSE DqtTableBytes(Head(tables)) \o DqtBody(Tail(tables))

DqtBytes(in) ==
    U16Bytes(2 + Len(DqtBody(in.tables)) + in.delta) \o DqtBody(in.tables) \o in.trailer

InitDQT ==
    /\ input \in DqtInputs
    /\ reader = [buf |-> DqtBytes(input), pos |-> 0]
    /\ decoder = NewDecoder(16, 16)
    /\ result = "none"
    /\ pc = "parse_dqt"
    /\ NoMcu

DoParseDqt ==
    /\ pc = "parse_dqt"
    /\ LET r == parse_dqt(reader.buf, decoder)
       IN  /\ decoder' = r.img
           /\ result' = r.res
           /\ reader' = [reader EXCEPT !.pos = r.pos]
    /\ pc' = "done"
    /\ UNCHANGED <<input, mcu_vars>>

SpecDQT == InitDQT /\ [][DoParseDqt]_vars

\* The segment is one the parser is to accept: k whole 8-bit tables, each to
\* a destination 0..3, and a length of 2 + 65 k.
DqtWellFormed(in) ==
    /\ in.delta = 0
    /\ \A k \in 1..Len(in.tables) :
          in.tables[k].precision = 0 /\ in.tables[k].dest <= 3

DqtNaming(in, d) == {k \in 1..Len(in.tables) : in.tables[k].dest = d}

\* C9: a DQT segment of length 2 + 65 k with k 8-bit tables is accepted and
\* leaves, at every destination 0..3 a table names, the (last) table naming
\* it, entry i of the segment at natural position UN_ZIGZAG[i], all 64 natural
\* positions written, and the other destinations empty; a segment whose length
\* is not a whole number of tables, that carries a 16-bit table or that names
\* a destination above 3 returns an error.
C9_DqtStoresEveryTable ==
    (pc = "done" /\ input.kind = "DQT") =>
        /\ DqtWellFormed(input) =>
              /\ result = "Ok"
              /\ \A d \in 0..(MAX_COMPONENTS - 1) :
                    IF DqtNaming(input, d) = {} THEN decoder.qt_tables[d] = None
                    ELSE LET t == input.tables[LastOf(DqtNaming(input, d))]
                             stored == Unwrap(decoder.qt_tables[d])
                         IN  /\ decoder.qt_tables[d] # None
                             /\ DOMAIN stored = 0..63
                             /\ \A i \in 0..63 :
                                   stored[UN_ZIGZAG[i + 1]] = QtPattern(t.pattern)[i + 1]
                             /\ Cardinality({UN_ZIGZAG[i + 1] : i \in 0..63}) = 64
        /\ ~DqtWellFormed(input) => result \in ErrorValues

\* Two tables in one segment, the second to destination 3, both stored.
C9_Witness ==
    /\ pc = "done" /\ input.kind = "DQT"
    /\ Len(input.tables) = 2 /\ DqtWellFormed(input)
    /\ input.tables[1].dest = 0 /\ input.tables[2].dest = 3
    /\ input.tables[1].pattern # input.tables[2].pattern
    /\ result = "Ok"
    /\ decoder.qt_tables[0] # None /\ decoder.qt_tables[3] # None

\* ---- SOF ----
MaxNf == 5

\* The size limits of the decoder under test (ZuneJpegOptions; set_limits).
SofMaxWidth == 16

SofMaxHeight == 16

\* The quantization tables a DQT segment with four tables leaves behind.
AllQtTables ==
    [d \in 0..(MAX_COMPONENTS - 1) |-> Some(un_zig_zag(QtPattern(d + 1)))]

\* Component i of a frame: its id, its sampling byte and its table number.
\* scheme "11": every component 1x1; "22": the first 2x2; "21": the first
\* 2x1; "12": the first 1x2; "bad": the first 0x1.  ids "seq": 1, 2, ...;
\* "same": every component has id 1.
SofComponentBytes(i, scheme, ids) ==
    << IF ids = "seq" THEN i ELSE 1,
       IF i > 1 THEN 17
       ELSE CASE scheme = "11" -> 17
              [] scheme = "22" -> 34
              [] scheme = "21" -> 33
              [] scheme = "12" -> 18
              [] OTHER -> 1,
       IF i = 1 THEN 0 ELSE 1 >>

RECURSIVE SofComponents(_, _, _, _)
SofComponents(i, nf, scheme, ids) ==
    IF i > nf THEN <<>>
    ELSE SofComponentBytes(i, scheme, ids) \o SofComponents(i + 1, nf, scheme, ids)

\* dlen is added to the length the header needs; cut bytes are missing at the
\* end of the input.
SofBytes(in) ==
    LET all == U16Bytes(8 + 3 * in.nf + in.dlen) \o <<in.precision>>
                  \o U16Bytes(in.height) \o U16Bytes(in.width) \o <<in.nf>>
                  \o SofComponents(1, in.nf, in.scheme, in.ids)
    IN  Take(all, Len(all) - in.cut)

SofInputs ==
    [kind : {"SOF"}, precision : {8, 12}, height : {0, 1, 16, 17},
     width : {0, 8, 17}, nf : 0..MaxNf, dlen : {0, 1},
     scheme : {"11", "22", "bad"}, ids : {"seq", "same"},
     qts : {"all", "none"}, cut : {0, 2}]

SofDecoder(qts) ==
    [NewDecoder(SofMaxWidth, SofMaxHeight) EXCEPT
        !.qt_tables = IF qts = "all" THEN AllQtTables ELSE NoTables]

InitSOF ==
    /\ input \in SofInputs
    /\ reader = [buf |-> SofBytes(input), pos |-> 0]
    /\ decoder = SofDecoder(input.qts)
    /\ result = "none"
    /\ pc = "parse_start_of_frame"
    /\ NoMcu

DoParseSof ==
    /\ pc = "parse_start_of_frame"
    /\ LET r == parse_start_of_frame(reader.buf, decoder)
       IN  /\ decoder' = r.img
           /\ result' = r.res
           /\ reader' = [reader EXCEPT !.pos = r.pos]
    /\ pc' = "done"
    /\ UNCHANGED <<input, mcu_vars>>

SpecSOF == InitSOF /\ [][DoParseSof]_vars

SofDone == pc = "done" /\ input.kind = "SOF"

SofBadDims(in) ==
    \/ in.width > SofMaxWidth
    \/ in.height > SofMaxHeight
    \/ in.width = 0
    \/ in.height = 0

\* C6: a frame header whose width or height is above the limit or zero makes
\* parse_start_of_frame return an error before it reads the component count:
\* whatever follows in the header, the component list is not built (it is
\* still empty, the component count and the sampling maxima are untouched,
\* the quantization tables are still in their slots), no more than the seven
\* bytes up to the width are consumed, and no coefficient buffer exists.
C6_SizeGuardBeforeComponents ==
    (SofDone /\ SofBadDims(input)) =>
        /\ result \in ErrorValues
        /\ decoder.components = <<>>
        /\ decoder.info.components = 0
        /\ decoder.h_max = 1 /\ decoder.v_max = 1 /\ decoder.mcu_x = 0
        /\ decoder.qt_tables = SofDecoder(input.qts).qt_tables
        /\ reader.pos <= 7
        /\ \A i \in 0..(MAX_COMPONENTS - 1) : decoder.mcu_block[i] = <<>>

\* A header that is fine but for its width, with three well-formed components
\* and their tables present, is refused.
C6_Witness ==
    /\ SofDone
    /\ input.precision = 8 /\ input.width > SofMaxWidth /\ input.height = 16
    /\ input.nf = 3 /\ input.dlen = 0 /\ input.cut = 0
    /\ input.scheme = "22" /\ input.ids = "seq" /\ input.qts = "all"
    /\ result = "Format"
    /\ reader.pos = 7

\* C7 as claimed: Ok only for precision 8 and 1 <= Nf <= 4, and an error for
\* every header with another precision, with Nf = 0 or with Nf > 4.
C7_SofAcceptsOnlyNf1To4 ==
    SofDone =>
        /\ result = "Ok" => (input.precision = 8 /\ input.nf \in 1..4)
        /\ (input.precision # 8 \/ input.nf = 0 \/ input.nf > 4)
              => result \in ErrorValues

\* ---- SOS ----
MaxNs == 4

\* The decoder after a frame header with nf components (ids 1..nf, all 1x1).
SosDecoder(nf) ==
    parse_start_of_frame(
        SofBytes([kind |-> "SOF", precision |-> 8, height |-> 16, width |-> 16,
                  nf |-> nf, dlen |-> 0, scheme |-> "11", ids |-> "seq",
                  qts |-> "all", cut |-> 0]),
        SofDecoder("all")).img

\* Ss, Se and the byte of Ah and Al.
SosParams ==
    { <<0, 63, 0>>, <<1, 5, 16>>, <<5, 1, 0>>, <<70, 69, 0>>,
      <<0, 0, 224>>, <<0, 0, 14>>, <<0, 0, 49>> }

\* ids: the component ids the scan names, in order; every component uses the
\* DC table 0 and the AC table 1.
SosInputs ==
    [kind : {"SOS"}, nf : {1, 3, 4}, ids : SeqsUpTo({1, 2, 4, 200}, MaxNs),
     dlen : {0, 1}, params : SosParams]

RECURSIVE SosComponentBytes(_)
SosComponentBytes(ids) ==
    IF ids = <<>> THEN <<>> ELSE <<Head(ids), 1>> \o SosComponentBytes(Tail(ids))

SosBytes(in) ==
    U16Bytes(6 + 2 * Len(in.ids) + in.dlen) \o <<Len(in.ids)>>
        \o SosComponentBytes(in.ids)
        \o <<in.params[1], in.params[2], in.params[3]>>

InitSOS ==
    /\ input \in SosInputs
    /\ reader = [buf |-> SosBytes(input), pos |-> 0]
    /\ decoder = SosDecoder(input.nf)
    /\ result = "none"
    /\ pc = "parse_sos"
    /\ NoMcu

DoParseSos ==
    /\ pc = "parse_sos"
    /\ LET r == parse_sos(reader.buf, decoder)
       IN  /\ decoder' = r.img
           /\ result' = r.res
           /\ reader' = [reader EXCEPT !.pos = r.pos]
    /\ pc' = "done"
    /\ UNCHANGED <<input, mcu_vars>>

SpecSOS == InitSOS /\ [][DoParseSos]_vars

SosDone == pc = "done" /\ input.kind = "SOS"

\* The scan header the claim calls acceptable: the right length, 1 <= Ns <= Nf,
\* pairwise distinct ids, each the id of a frame component.
SosAcceptable(in) ==
    /\ in.dlen = 0
    /\ 1 <= Len(in.ids) /\ Len(in.ids) <= in.nf
    /\ \A a, b \in 1..Len(in.ids) : a # b => in.ids[a] # in.ids[b]
    /\ \A a \in 1..Len(in.ids) : in.ids[a] \in 1..in.nf

\* Ah and Al are in range (the other checks of parse_sos).
SosApproxOk(in) == in.params[3] \div 16 <= 13 /\ in.params[3] % 16 <= 13

\* C8 as claimed: Ok exactly for the acceptable scan headers (Ns = 4 of a
\* 4-component frame among them), an error value for every other one, and
\* after Ok z_order[0..Ns) are pairwise distinct indices of components.
C8_SosAcceptsExactly ==
    SosDone =>
        /\ (SosAcceptable(input) /\ SosApproxOk(input)) => result = "Ok"
        /\ ~SosAcceptable(input) => result \in ErrorValues
        /\ result = "Ok" =>
              /\ \A a \in 0..(Len(input.ids) - 1) :
                    decoder.z_order[a] \in 0..(Len(decoder.components) - 1)
              /\ \A a, b \in 0..(Len(input.ids) - 1) :
                    a # b => decoder.z_order[a] # decoder.z_order[b]

\* ---- DHT ----
MaxDhtTables == 2

\* The 16 counts of a table and its symbols, by name.
DhtCounts(shape) ==
    [l \in 1..16 |->
        CASE shape = "one"    -> IF l = 1 THEN 1 ELSE 0
          [] shape = "sym16"  -> IF l = 1 THEN 1 ELSE 0
          [] shape = "two"    -> IF l = 2 THEN 1 ELSE IF l = 3 THEN 2 ELSE 0
          [] shape = "full1"  -> IF l = 1 THEN 2 ELSE 0
          [] shape = "three"  -> IF l = 2 THEN 3 ELSE 0
          [] shape = "dc3"    -> IF l <= 3 THEN 1 ELSE 0
          [] shape = "ac2"    -> IF l <= 2 THEN 1 ELSE 0
          [] shape = "sum257" -> IF l = 15 THEN 2 ELSE IF l = 16 THEN 255 ELSE 0
          [] OTHER            -> 0]

DhtSymbols(shape) ==
    CASE shape = "one"    -> <<0>>
      [] shape = "sym16"  -> <<16>>
      [] shape = "two"    -> <<1, 2, 3>>
      [] shape = "full1"  -> <<0, 1>>
      [] shape = "three"  -> <<0, 1, 2>>
      [] shape = "dc3"    -> <<0, 5, 13>>
      [] shape = "ac2"    -> <<0, 1>>
      [] shape = "sum257" -> [i \in 1..257 |-> 0]
      [] OTHER            -> <<>>

DhtTableSpec(class, dest, shape) == [class |-> class, dest |-> dest, shape |-> shape]

DhtTableSpecs ==
    { DhtTableSpec(0, 0, "one"), DhtTableSpec(1, 3, "three"),
      DhtTableSpec(0, 3, "two"), DhtTableSpec(1, 0, "sym16"),
      DhtTableSpec(0, 1, "sym16"), DhtTableSpec(1, 1, "full1"),
      DhtTableSpec(0, 4, "one"), DhtTableSpec(2, 0, "one"),
      DhtTableSpec(1, 2, "sum257"), DhtTableSpec(0, 2, "empty") }

DhtTableBytes(t) ==
    <<t.class * 16 + t.dest>> \o DhtCounts(t.shape) \o DhtSymbols(t.shape)

\* delta is added to the length the tables need; prior says whether the
\* decoder already holds tables from an earlier segment.
DhtInputs ==
    [kind : {"DHT"}, tables : SeqsUpTo(DhtTableSpecs, MaxDhtTables),
     delta : {-1, 0, 1}, prior : BOOLEAN]

RECURSIVE DhtBody(_)
DhtBody(tables) ==
    IF tables = <<>> THEN <<>>
    ELSE DhtTableBytes(Head(tables)) \o DhtBody(Tail(tables))

DhtBytes(in) ==
    U16Bytes(2 + Len(DhtBody(in.tables)) + in.delta) \o DhtBody(in.tables)

\* The decoder an earlier segment `00 26 00 <one> 13 <two>` leaves.
DhtPriorDecoder ==
    parse_huffman(
        DhtBytes([kind |-> "DHT",
                  tables |-> <<DhtTableSpec(0, 0, "one"), DhtTableSpec(1, 3, "two")>>,
                  delta |-> 0, prior |-> FALSE]),
        NewDecoder(16, 16)).img

\* The decoder before the segment: no tables, or those of an earlier segment.
DhtDecoder(prior) == IF prior THEN DhtPriorDecoder ELSE NewDecoder(16, 16)

InitDHT ==
    /\ input \in DhtInputs
    /\ reader = [buf |-> DhtBytes(input), pos |-> 0]
    /\ decoder = DhtDecoder(input.prior)
    /\ result = "none"
    /\ pc = "parse_huffman"
    /\ NoMcu

DoParseHuffman ==
    /\ pc = "parse_huffman"
    /\ LET r == parse_huffman(reader.buf, decoder)
       IN  /\ decoder' = r.img
           /\ result' = r.res
           /\ reader' = [reader EXCEPT !.pos = r.pos]
    /\ pc' = "done"
    /\ UNCHANGED <<input, mcu_vars>>

SpecDHT == InitDHT /\ [][DoParseHuffman]_vars

DhtDone == pc = "done" /\ input.kind = "DHT"

\* What the claim asks of a segment: class 0 or 1, destination 0..3, at most
\* 256 symbols in every table, and the declared length used up exactly.
DhtWellFormed(in) ==
    /\ in.delta = 0
    /\ \A k \in 1..Len(in.tables) :
          /\ in.tables[k].class \in {0, 1}
          /\ in.tables[k].dest \in 0..3
          /\ SumSeq(DhtCounts(in.tables[k].shape)) <= 256

\* The counts leave a code unused: sum of bits[l] * 2^(16-l) is below 2^16.
DhtKraft(shape) ==
    SumSeq([l \in 1..16 |-> DhtCounts(shape)[l] * Pow2(16 - l)]) < Pow2(16)

\* The tables make_derived_table takes: a code tree with a code to spare and,
\* in a DC table, symbols of at most 15.
DhtLegal(in) ==
    \A k \in 1..Len(in.tables) :
        /\ DhtKraft(in.tables[k].shape)
        /\ in.tables[k].class = 0 =>
              \A i \in 1..Len(DhtSymbols(in.tables[k].shape)) :
                  DhtSymbols(in.tables[k].shape)[i] <= 15

DhtNaming(in, class, d) ==
    {k \in 1..Len(in.tables) : in.tables[k].class = class /\ in.tables[k].dest = d}

\* Slot (class, d) of decoder dec.
DhtSlot(dec, class, d) ==
    IF class = 0 THEN dec.dc_huffman_tables[d] ELSE dec.ac_huffman_tables[d]

\* The slot holds the counts and the symbols of table t.
DhtHolds(slot, t) ==
    /\ slot # None
    /\ \A l \in 1..16 : Unwrap(slot).bits[l] = DhtCounts(t.shape)[l]
    /\ \A i \in 1..Len(DhtSymbols(t.shape)) :
          Unwrap(slot).values[i - 1] = DhtSymbols(t.shape)[i]

\* After Ok every slot a table names holds the last table naming it, and every
\* other slot is as it was before the segment.
DhtStored ==
    \A class \in {0, 1}, d \in 0..(MAX_COMPONENTS - 1) :
        LET ks == DhtNaming(input, class, d)
        IN  IF ks = {}
            THEN DhtSlot(decoder, class, d) = DhtSlot(DhtDecoder(input.prior), class, d)
            ELSE DhtHolds(DhtSlot(decoder, class, d),
                          input.tables[CHOOSE k \in ks : \A j \in ks : j <= k])

\* C10 as claimed: a DHT segment is accepted exactly when every table has
\* class 0 or 1, destination 0..3, at most 256 symbols, and the tables use up
\* the declared length; accepted tables are in the slots they name and no
\* other slot changes.
C10_DhtAcceptedExactly ==
    DhtDone =>
        /\ result = "Ok" <=> DhtWellFormed(input)
        /\ result = "Ok" => DhtStored

\* C10, amended: a DHT segment is accepted exactly when, besides the above,
\* every table's counts leave a code unused (sum of bits[l] * 2^(16-l) below
\* 2^16) and every symbol of a DC table is at most 15; accepted tables are in
\* the slots they name, destination 3 included, and no other slot changes.
C10_DhtAcceptedExactlyLegal ==
    DhtDone =>
        /\ result = "Ok" <=> (DhtWellFormed(input) /\ DhtLegal(input))
        /\ result = "Ok" => DhtStored

\* A segment of two tables, one for destination 3, was accepted over a decoder
\* that already held tables.
C10_Witness ==
    /\ DhtDone
    /\ result = "Ok"
    /\ input.prior
    /\ Len(input.tables) = 2
    /\ \E k \in 1..2 : input.tables[k].dest = 3 /\ input.tables[k].shape = "three"
    /\ DhtSlot(decoder, 1, 3) # DhtSlot(DhtPriorDecoder, 1, 3)

(***************************************************************************)
(* The inputs of the baseline decode: a decoder that has parsed the        *)
(* headers of an image, and the entropy-coded bytes that follow the scan   *)
(* header, encoded here from the DC value of every MCU.                    *)
(***************************************************************************)
\* The DC table has the codes 0 (size 0), 10 (size 5) and 110 (size 13); the
\* AC table the codes 0 (end of block) and 10 (run 0, size 1).
McuTables ==
    parse_huffman(
        DhtBytes([kind |-> "DHT",
                  tables |-> <<DhtTableSpec(0, 0, "dc3"), DhtTableSpec(1, 1, "ac2")>>,
                  delta |-> 0, prior |-> FALSE]),
        [NewDecoder(65535, 65535) EXCEPT !.qt_tables = AllQtTables]).img

\* The decoder after DQT, DHT, SOF0, DRI and SOS.  out: the output colorspace
\* the caller asked for.
McuDecoder(in) ==
    LET sof == parse_start_of_frame(
                   SofBytes([kind |-> "SOF", precision |-> 8, height |-> in.height,
                             width |-> in.width, nf |-> in.nf, dlen |-> 0,
                             scheme |-> in.scheme, ids |-> "seq", qts |-> "all",
                             cut |-> 0]),
                   [McuTables EXCEPT !.output_colorspace = in.out]).img
        sos == parse_sos(
                   SosBytes([kind |-> "SOS", nf |-> in.nf,
                             ids |-> [i \in 1..in.nf |-> i], dlen |-> 0,
                             params |-> <<0, 63, 0>>]),
                   set_restart_interval(sof, in.dri))
    IN  sos.img

\* The DC value of every block of MCU n.
McuDc(in, n) ==
    CASE in.dcs = "flat"  -> 16
      [] in.dcs = "alt"   -> IF n % 2 = 1 THEN 16 ELSE 0
      [] in.dcs = "first" -> IF n = 0 THEN 16 ELSE 0
      [] in.dcs = "ff"    -> IF n = 0 THEN 4351 ELSE 0
      [] OTHER            -> 0

BitsOf(v, n) == [i \in 1..n |-> (v \div Pow2(n - i)) % 2]

Abs(x) == IF x < 0 THEN -x ELSE x

\* The size of a DC difference and its code in the DC table.
DcSize(diff) == IF diff = 0 THEN 0 ELSE IF Abs(diff) < 32 THEN 5 ELSE 13

DcCode(size) == IF size = 0 THEN <<0>> ELSE IF size = 5 THEN <<1, 0>> ELSE <<1, 1, 0>>

\* A block with the DC difference diff and no AC coefficient.
BlockBits(diff) ==
    LET size == DcSize(diff)
    IN  DcCode(size)
            \o BitsOf(IF diff >= 0 THEN diff ELSE diff + Pow2(size) - 1, size)
            \o <<0>>

\* Bits that match no code: 111 and zeroes where a DC code is due (every DC
\* code has a 0 in its first three bits), or a DC difference of 0 and then 11
\* and zeroes where an AC code is due (every AC code has a 0 in its first two
\* bits).
BadBits(miss) ==
    IF miss = "ac" THEN <<0, 1, 1>> \o [i \in 1..14 |-> 0]
    ELSE <<1, 1, 1>> \o [i \in 1..13 |-> 0]

\* The blocks of one MCU: the first block of every component has the DC
\* difference diff, its other blocks repeat its DC value.  comps[k] is the
\* number of blocks of component k in an MCU.
RECURSIVE McuBits(_, _, _)
McuBits(comps, k, diff) ==
    IF k > Len(comps) THEN <<>>
    ELSE BlockBits(diff)
             \o Concat([b \in 1..(comps[k] - 1) |-> BlockBits(0)])
             \o McuBits(comps, k + 1, diff)

\* The bytes of a run of bits, padded with ones, every 0xFF followed by the
\* byte stuff (0 in a well-formed stream).
RECURSIVE BytesOfBits(_, _)
BytesOfBits(bits, stuff) ==
    IF bits = <<>> THEN <<>>
    ELSE LET byte == TopBits(SubSeq(bits \o <<1, 1, 1, 1, 1, 1, 1>>, 1, 8), 8)
             rest == IF Len(bits) <= 8 THEN <<>> ELSE SubSeq(bits, 9, Len(bits))
         IN  (IF byte = 255 THEN <<255, stuff>> ELSE <<byte>>) \o BytesOfBits(rest, stuff)

\* The entropy-coded bytes from MCU n on: bits are the bits of the restart
\* interval under way, pred the DC value of the MCU before.  With a restart
\* interval, RSTm follows every dri-th MCU but the last one.
RECURSIVE ScanBytes(_, _, _, _, _, _)
ScanBytes(in, comps, total, n, pred, bits) ==
    IF n >= total THEN BytesOfBits(bits, in.stuff) \o <<255, 217>>
    ELSE
    LET boundary == in.dri > 0 /\ n > 0 /\ n % in.dri = 0
        diff == McuDc(in, n) - (IF boundary THEN 0 ELSE pred)
        mcu == IF n = in.bad THEN BadBits(in.miss) ELSE McuBits(comps, 1, diff)
    IN  IF boundary
        THEN BytesOfBits(bits, in.stuff) \o <<255, 208 + (((n \div in.dri) - 1) % 8)>>
                 \o ScanBytes(in, comps, total, n + 1, McuDc(in, n), mcu)
        ELSE ScanBytes(in, comps, total, n + 1, McuDc(in, n), bits \o mcu)

\* The scan of the image of input in, for the decoder dec that parsed its
\* headers.
\* The scan of an image whose coefficients are all zero: every block is the
\* two bits 00, the last byte is padded with ones.
ZeroScan(nbits) ==
    [i \in 1..((nbits + 7) \div 8) |->
        IF 8 * i <= nbits THEN 0 ELSE Pow2(8 * i - nbits) - 1] \o <<255, 217>>

ScanOf(in, dec) ==
    LET comps == [k \in 1..Len(dec.components) |->
                     dec.components[k].horizontal_sample
                         * dec.components[k].vertical_sample]
        total == dec.mcu_x * dec.mcu_y
    IN  IF in.dcs = "zero" /\ in.bad = -1 /\ in.dri = 0
        THEN ZeroScan(2 * SumSeq(comps) * total)
        ELSE ScanBytes(in, comps, total, 0, 0, <<>>)

\* The start of decode_mcu_ycbcr_baseline for the image of input in.
InitMcu(in) ==
    /\ input = in
    /\ decoder = McuDecoder(in)
    /\ reader = [buf |-> ScanOf(in, McuDecoder(in)), pos |-> 0]
    /\ stream = BitStream_new
    /\ locals = <<>>
    /\ pool = <<>>
    /\ global_channel = NoChannel
    /\ result = "none"
    /\ pc = "setup"

(***************************************************************************)
(* The steps of decode_mcu_ycbcr_baseline: the set-up, one step for every  *)
(* turn of the loop over the MCU rows, one for every post-processing task  *)
(* (run by a thread of the pool), and the return once the scope has joined *)
(* its tasks.                                                              *)
(***************************************************************************)
\* Lines 131-225.  Whether u16 arithmetic wraps is the build's choice.
Setup ==
    /\ pc = "setup"
    /\ \E wrapping \in BOOLEAN :
          LET s == mcu_setup(decoder, wrapping)
          IN  /\ decoder' = s.dec
              /\ locals' = [s.loc EXCEPT !.chunks = IF s.res = "Ok" THEN s.loc.chunks ELSE 0]
              /\ global_channel' =
                     IF s.res = "Ok"
                     THEN [len |-> s.len, chunks |-> [c \in 1..s.loc.chunks |-> <<>>]]
                     ELSE NoChannel
              /\ result' = IF s.res = "Ok" THEN "none" ELSE s.res
              /\ pc' = IF s.res = "Ok" THEN "rows" ELSE "done"
    /\ UNCHANGED <<reader, input, stream, pool>>

\* The mutant: the task works on the decoder's blocks, not on a copy.
task_block_Shared(task, dec) == dec.mcu_block

\* Lines 346-355: the closure owns the copy of mcu_block made at dispatch.
task_block(task, dec) == task.block

\* Lines 229-356: one turn of `for _ in 0..mcu_height`: the MCUs of the row,
\* then the copy of the blocks, the next chunk and the dispatch.  An error
\* leaves the closure; the scope still joins the tasks under way.
DecodeRow ==
    /\ pc = "rows"
    /\ locals.rows < locals.mcu_height
    /\ \E r \in {decode_mcu_row([st |-> stream, rd |-> reader, dec |-> decoder], locals, 0)} :
       LET res == IF r.res # "Ok" THEN r.res
                  ELSE IF locals.rows >= locals.chunks THEN "Panic"
                  ELSE "Ok"
       IN  /\ stream' = r.m.st
           /\ reader' = r.m.rd
           /\ decoder' = r.m.dec
           /\ pool' = IF res = "Ok"
                      THEN Append(pool, [row |-> locals.rows,
                                         block |-> r.m.dec.mcu_block,
                                         chunk |-> locals.rows + 1,
                                         done |-> FALSE])
                      ELSE pool
           /\ locals' = IF res = "Ok" THEN [locals EXCEPT !.rows = locals.rows + 1]
                        ELSE [locals EXCEPT !.ret = res]
           /\ pc' = IF res = "Ok" THEN "rows" ELSE "failed"
    /\ UNCHANGED <<input, global_channel, result>>

\* A thread of the pool runs task k: post_process writes the task's chunk.
Worker(k) ==
    /\ pc \in {"rows", "failed"}
    /\ ~pool[k].done
    /\ global_channel' =
           [global_channel EXCEPT
               !.chunks[pool[k].chunk] =
                   post_process(task_block(pool[k], decoder), locals.global_component,
                                decoder.output_colorspace)]
    /\ pool' = [pool EXCEPT ![k].done = TRUE]
    /\ UNCHANGED <<reader, decoder, result, pc, input, stream, locals>>

\* scoped_pools.scoped returns once every task it was handed has finished.
scope_joined(tasks) == \A k \in 1..Len(tasks) : tasks[k].done

\* Lines 357-367: the closure is over, the scope has joined; the error is
\* handed on, or the buffer is truncated and returned.
Join ==
    /\ \/ pc = "rows" /\ locals.rows >= locals.mcu_height
       \/ pc = "failed"
    /\ scope_joined(pool)
    /\ IF pc = "rows"
       THEN /\ result' = "Ok"
            /\ global_channel' =
                   [global_channel EXCEPT
                       !.len = Min(global_channel.len,
                                   decoder.info.width * decoder.info.height
                                       * num_components(decoder.output_colorspace))]
       ELSE /\ result' = locals.ret
            /\ global_channel' = NoChannel
    /\ pc' = "done"
    /\ UNCHANGED <<reader, decoder, input, stream, locals, pool>>

NextMcu == Setup \/ DecodeRow \/ (\E k \in 1..Len(pool) : Worker(k)) \/ Join

\* ---- The baseline decode of small images ----
MaxRows == 3

\* width x height images of nf components (all 1x1) whose MCU n has the DC
\* value McuDc(n); bad is the MCU replaced by bits that match no code (-1:
\* none), miss the table that has no code for them.
McuInputs ==
    [kind : {"MCU"}, nf : {1, 3}, scheme : {"11"}, width : {8, 16},
     height : {8 * r : r \in 2..MaxRows}, out : {"RGB", "GRAYSCALE"}, dri : {0},
     dcs : {"zero", "alt", "first", "flat"}, bad : {-1}, miss : {"dc"}, stuff : {0}]
    \cup
    [kind : {"MCU"}, nf : {1, 3}, scheme : {"11"}, width : {8, 16},
     height : {8 * r : r \in 2..MaxRows}, out : {"RGB", "GRAYSCALE"}, dri : {0},
     dcs : {"zero", "alt"}, bad : {0, 1, 3}, miss : {"dc", "ac"}, stuff : {0}]

Init == \E in \in McuInputs : InitMcu(in)

Spec == Init /\ [][NextMcu]_vars

\* The decode of the rows one after the other, every task run at once: the
\* chunks it writes, from row `row` on.
RECURSIVE SequentialChunks(_, _, _)
SequentialChunks(m, loc, row) ==
    IF row >= loc.mcu_height THEN <<>>
    ELSE LET Decoded(r) ==
                 IF r.res # "Ok" THEN <<>>
                 ELSE <<post_process(r.m.dec.mcu_block, loc.global_component,
                                     m.dec.output_colorspace)>>
                          \o SequentialChunks(r.m, loc, row + 1)
         IN  Decoded(decode_mcu_row(m, loc, 0))

\* The chunks of the image of the input, decoded sequentially.
ReferenceChunks ==
    LET s == mcu_setup(McuDecoder(input), TRUE)
    IN  SequentialChunks([st |-> BitStream_new,
                          rd |-> [buf |-> reader.buf, pos |-> 0],
                          dec |-> s.dec], s.loc, 0)

\* C2: whatever the interleaving of the tasks with each other and with the
\* decoding of later rows, a finished task for row k has written the samples
\* of the coefficients decoded for row k, and a returned buffer has every
\* dispatched task finished, one per MCU row.
C2_OutputIndependentOfScheduling ==
    /\ pc \in {"rows", "failed"} \/ (pc = "done" /\ result = "Ok") =>
          \A k \in 1..Len(pool) :
              pool[k].done =>
                  /\ pool[k].row = k - 1
                  /\ global_channel.chunks[pool[k].chunk] = ReferenceChunks[k]
    /\ pc = "done" /\ result = "Ok" =>
          /\ Len(pool) = locals.mcu_height
          /\ \A k \in 1..Len(pool) : pool[k].done

\* The task of the second row has finished before the task of the first row,
\* while a third row is still to be decoded; the two rows differ.
C2_Witness ==
    /\ pc = "rows"
    /\ Len(pool) = 2
    /\ locals.rows < locals.mcu_height
    /\ pool[2].done
    /\ ~pool[1].done
    /\ global_channel.chunks[2] = ReferenceChunks[2]
    /\ ReferenceChunks[1] # ReferenceChunks[2]
    /\ input.nf = 3
    /\ input.out = "RGB"

\* The input has an MCU whose bits match no code, within the MCUs of the image.
HasBadMcu == input.bad >= 0 /\ input.bad < decoder.mcu_x * decoder.mcu_y

\* The table in use at the unmatched bits: the DC or the AC table of the
\* first component of the scan.
TableInUse ==
    IF input.miss = "ac"
    THEN Unwrap(decoder.ac_huffman_tables[decoder.components[1].ac_huff_table])
    ELSE Unwrap(decoder.dc_huffman_tables[decoder.components[1].dc_huff_table])

\* C5: when the next 16 bits match no code of the table in use, the block
\* decode fails with HuffmanDecode and so does the whole decode: the stream
\* still stands at the unmatched bits (none dropped), no task was dispatched
\* for the row of that MCU (no coefficient substituted), and the decode
\* returns the error and no buffer.
C5_BadCodeAbortsDecode ==
    HasBadMcu /\ pc \in {"failed", "done"} =>
        /\ locals.ret = "HuffmanDecode"
        /\ huff_code_length(TableInUse, peek_bits(stream, 16), HUFF_LOOKAHEAD + 1) = 17
        /\ Len(pool) = input.bad \div locals.mcu_width
        /\ pc = "done" => result = "HuffmanDecode" /\ global_channel = NoChannel

\* The second row of a three-row image held the unmatched bits: the first row
\* was decoded and its task has written its chunk, and the decode returned
\* the error.
C5_Witness ==
    /\ pc = "done"
    /\ HasBadMcu
    /\ input.bad >= locals.mcu_width
    /\ locals.mcu_height = 3
    /\ Len(pool) = 1
    /\ pool[1].done
    /\ input.miss = "ac"
    /\ result = "HuffmanDecode"

\* ---- The size of the returned buffer ----
\* The largest u16.
SizeMaxDim == Pow2(16) - 1

\* Images of zero coefficients: the small ones in every sampling scheme, and
\* the tallest image a frame header can declare.
SizeInputs ==
    [kind : {"MCU"}, nf : {1, 3}, scheme : {"11", "21", "12", "22"},
     width : {8, 16}, height : {8, 16}, out : {"RGB", "GRAYSCALE", "RGBA"},
     dri : {0}, dcs : {"zero"}, bad : {-1}, miss : {"dc"}, stuff : {0}]
    \cup
    [kind : {"MCU"}, nf : {1, 3}, scheme : {"11"},
     width : {8}, height : {SizeMaxDim - 1, SizeMaxDim},
     out : {"RGB", "GRAYSCALE", "RGBA"},
     dri : {0}, dcs : {"zero"}, bad : {-1}, miss : {"dc"}, stuff : {0}]

InitSize == \E in \in SizeInputs : InitMcu(in)

SpecSize == InitSize /\ [][NextMcu]_vars

\* C1: a buffer returned with Ok has width x height x components_out bytes.
C1_OutputLength ==
    pc = "done" /\ result = "Ok" =>
        global_channel.len
            = input.width * input.height * num_components(decoder.output_colorspace)

\* ---- Restart intervals ----
MaxInterval == 2

MaxMcus == 7

\* The codes put in the place of the stuffing byte: RST0, EOI, DHT, SOS.
MarkerCodes == {208, 217, 196, 218}

\* Images of one or two rows of up to MaxMcus MCUs, with and without a restart
\* interval; and images whose first MCU holds a byte 0xFF, its stuffing byte
\* replaced by a marker code.
RstInputs ==
    [kind : {"MCU"}, nf : {1, 3}, scheme : {"11"}, width : {8, 16, 8 * MaxMcus},
     height : {8, 16}, out : {"RGB"}, dri : 0..MaxInterval,
     dcs : {"zero", "flat", "alt", "ff"}, bad : {-1}, miss : {"dc"}, stuff : {0}]
    \cup
    [kind : {"MCU"}, nf : {1, 3}, scheme : {"11"}, width : {8, 16},
     height : {8, 16}, out : {"RGB"}, dri : 0..MaxInterval,
     dcs : {"ff"}, bad : {-1}, miss : {"dc"}, stuff : MarkerCodes]

InitRST == \E in \in RstInputs : InitMcu(in)

SpecRST == InitRST /\ [][NextMcu]_vars

\* The coefficient blocks of every row, decoded sequentially, of the image of
\* input in.
RECURSIVE SequentialBlocks(_, _, _)
SequentialBlocks(m, loc, row) ==
    IF row >= loc.mcu_height THEN <<>>
    ELSE LET Decoded(r) ==
                 IF r.res # "Ok" THEN <<>>
                 ELSE <<r.m.dec.mcu_block>> \o SequentialBlocks(r.m, loc, row + 1)
         IN  Decoded(decode_mcu_row(m, loc, 0))

\* The blocks of the same MCUs encoded with no restart interval and no RST
\* marker.
NoRestartBlocks ==
    LET in == [input EXCEPT !.dri = 0]
        Blocks(s) ==
            SequentialBlocks([st |-> BitStream_new,
                              rd |-> [buf |-> ScanOf(in, s.dec), pos |-> 0],
                              dec |-> s.dec], s.loc, 0)
    IN  Blocks(mcu_setup(McuDecoder(in), TRUE))

\* A well-formed stream with a restart interval has been decoded.
RstDone == pc = "done" /\ input.dri > 0 /\ input.stuff = 0

\* C3: a stream with restart interval n > 0 and an RSTm after every n-th MCU
\* decodes to the coefficient blocks of the same MCUs encoded with no restart
\* interval, for every number of components.
C3_RestartEquivalent ==
    RstDone =>
        /\ result = "Ok"
        /\ Len(pool) = Len(NoRestartBlocks)
        /\ \A k \in 1..Len(pool) : pool[k].block = NoRestartBlocks[k]

\* C4: with the stuffing byte of the first MCU replaced by a marker code (not
\* at an MCU boundary), the decode returns MCUError, whatever the restart
\* interval.
C4_SpuriousMarkerIsMcuError ==
    pc = "done" /\ input.dcs = "ff" /\ input.stuff \in MarkerCodes =>
        result = "MCUError"

\* The bit reader, the reader and the decoder after each MCU of one MCU row,
\* from MCU n on, up to the first error.
RECURSIVE McuStates(_, _, _)
McuStates(m, loc, n) ==
    IF n >= loc.bias * loc.mcu_width THEN <<>>
    ELSE LET Decoded(r) ==
                 IF r.res # "Ok" THEN <<>>
                 ELSE <<r.m>> \o McuStates(r.m, loc, n + 1)
         IN  Decoded(decode_mcu(m, loc, n \div loc.mcu_width, n % loc.mcu_width, 0))

\* The row about to be decoded, of a well-formed stream with a restart
\* interval.
RstRowDue ==
    /\ pc = "rows" /\ locals.rows < locals.mcu_height
    /\ input.dri > 0 /\ input.stuff = 0

\* After MCU number count of the image (i-th of its row) the state is s: the
\* countdown has gone down once for the MCU, every component's block is
\* stored, and at the end of an interval that an RSTm follows the bit reader
\* and the predictions are reset.
McuCountedOnce(s, i, count) ==
    /\ s.dec.todo = input.dri - (count % input.dri)
    /\ input.dcs = "flat" =>
          \A pos \in 0..(input.nf - 1) : s.dec.mcu_block[pos][(i - 1) * 64 + 1] = 16
    /\ count % input.dri = 0 /\ count < locals.mcu_width * locals.mcu_height =>
          /\ s.st = BitStream_new
          /\ \A k \in 1..Len(s.dec.components) : s.dec.components[k].dc_pred = 0

\* C15: with restart interval n > 0 the countdown goes down once per MCU;
\* when it reaches zero and an RSTm follows, the bit reader is reset, every
\* dc_pred is 0 and todo is n again before the next MCU, and no component of
\* the MCU that just ended was skipped.
C15_RestartOncePerMcu ==
    RstRowDue =>
        LET Checked(ms) ==
                /\ Len(ms) = locals.mcu_width
                /\ \A i \in 1..Len(ms) :
                      McuCountedOnce(ms[i], i, locals.rows * locals.mcu_width + i)
        IN  Checked(McuStates([st |-> stream, rd |-> reader, dec |-> decoder],
                              locals, 0))

\* ---- The inverse DCT of one block ----
\* The block of an input: its DC coefficient, and AC coefficients that are
\* all zero, zero but one, or all equal to the DC coefficient.
IdctVector(in) ==
    [i \in 0..63 |->
        IF i = 0 THEN in.dc
        ELSE CASE in.ac = "zero" -> 0
               [] in.ac = "first" -> IF i = 1 THEN 3 ELSE 0
               [] in.ac = "last" -> IF i = 63 THEN -2 ELSE 0
               [] OTHER -> in.dc]

\* A quantization table with the entry q everywhere.
IdctTable(in) == [i \in 0..63 |-> in.q]

IdctInputs ==
    [kind : {"IDCT"},
     dc : {-32768, -2000, -1024, -8, 0, 1, 8, 1016, 1024, 4351, 32767},
     q : {1, 2, 16, 255}, ac : {"zero", "first", "last", "same"}]

InitIDCT ==
    /\ input \in IdctInputs
    /\ reader = [buf |-> <<>>, pos |-> 0]
    /\ decoder = NewDecoder(16, 16)
    /\ result = "none"
    /\ pc = "idct"
    /\ NoMcu

\* One call of dequantize_and_idct_int; the samples are left in locals.
\* Whether an overflowing operation unwinds or wraps is the build's choice.
DoIdct ==
    /\ pc = "idct"
    /\ \E r \in {dequantize_and_idct_int(IdctVector(input), IdctTable(input))} :
       \E wrapping \in BOOLEAN :
          /\ result' = IF r.o /\ ~wrapping THEN "Panic" ELSE "Ok"
          /\ locals' = IF r.o /\ ~wrapping THEN <<>> ELSE r.out
    /\ pc' = "done"
    /\ UNCHANGED <<reader, decoder, input, stream, pool, global_channel>>

SpecIDCT == InitIDCT /\ [][DoIdct]_vars

IdctDone == pc = "done" /\ input.kind = "IDCT" /\ result = "Ok"

\* C11: for a block whose coefficients 1..63 are zero, all 64 samples are
\* ((dc * qt[0]) >> 3) + 128 clamped to 0..255, and 128 for the zero block.
C11_ZeroAcBroadcast ==
    IdctDone /\ input.ac = "zero" =>
        /\ \A k \in 0..63 :
              locals[k] = clamp(((input.dc * input.q) \div 8) + 128)
        /\ input.dc = 0 => \A k \in 0..63 : locals[k] = 128

\* C12: every sample written lies in 0..255, on both paths.
C12_SamplesInRange ==
    IdctDone => \A k \in 0..63 : locals[k] \in 0..255

\* ---- One Huffman decode step ----
\* The counts of a table: cs[k] = <<l, n>> for n codes of length l.
HuffBits(cs) ==
    [l \in 0..16 |->
        IF \E k \in 1..Len(cs) : cs[k][1] = l
        THEN (CHOOSE c \in {cs[k] : k \in 1..Len(cs)} : c[1] = l)[2]
        ELSE 0]

\* The symbols 1, 2, .. in the order of the codes, zero after the last.
HuffValues(n) == [i \in 0..255 |-> IF i < n THEN i + 1 ELSE 0]

HuffCase(cs) ==
    LET bits == HuffBits(cs)
        size == huff_sizes(bits, 1)
    IN  [size |-> size,
         huff_code |-> huff_gen_codes(size, 0, 0, SizeAt(size, 0), <<>>).huff_code,
         new |-> HuffmanTable_new(bits, HuffValues(Len(size)), TRUE)]

\* Tables with codes of 1..9 bits only, and with codes of 10..16 bits.
HuffCases ==
    << HuffCase(<< <<1, 1>>, <<2, 1>>, <<3, 1>> >>),
       HuffCase(<< <<2, 2>>, <<9, 2>>, <<10, 2>>, <<16, 1>> >>),
       HuffCase(<< <<1, 1>>, <<10, 1>>, <<11, 1>>, <<12, 2>> >>),
       HuffCase(<< <<3, 7>>, <<13, 1>>, <<16, 3>> >>),
       HuffCase(<< <<9, 3>>, <<14, 2>>, <<15, 2>> >>) >>

\* The 16 bits presented: a code followed by a filling, or the filling alone.
HuffFill(f) ==
    [i \in 1..16 |->
        CASE f = "zeros" -> 0
          [] f = "ones" -> 1
          [] f = "odd" -> i % 2
          [] OTHER -> (i + 1) % 2]

HuffPattern(c, p, f) ==
    IF p = 0 THEN HuffFill(f)
    ELSE SubSeq(BitsOf(c.huff_code[p], c.size[p]) \o HuffFill(f), 1, 16)

HuffInputs ==
    UNION {[kind : {"HUFF"}, t : {t},
            bits : {HuffPattern(HuffCases[t], p, f) :
                       p \in 0..Len(HuffCases[t].size),
                       f \in {"zeros", "ones", "odd", "even"}}] :
           t \in 1..Len(HuffCases)}

\* The bit reader holds the 16 bits and 16 zero bits after them.
InitHuff ==
    /\ input \in HuffInputs
    /\ reader = [buf |-> <<>>, pos |-> 0]
    /\ decoder = NewDecoder(16, 16)
    /\ result = "none"
    /\ pc = "huff"
    /\ stream = [BitStream_new EXCEPT
                    !.buffer = OrLow(Zero64, input.bits \o HuffFill("zeros")),
                    !.aligned_buffer =
                        Shl(OrLow(Zero64, input.bits \o HuffFill("zeros")), 32),
                    !.bits_left = 32]
    /\ locals = <<>>
    /\ pool = <<>>
    /\ global_channel = NoChannel

\* The decode step of decode_dc: the lookup of the next HUFF_LOOKAHEAD bits
\* and decode_huff!.
DecodeSymbol ==
    /\ pc = "huff"
    /\ \E r \in {decode_huff(stream,
                             HuffCases[input.t].new.table.lookup[
                                 peek_bits(stream, HUFF_LOOKAHEAD)],
                             HuffCases[input.t].new.table)} :
          /\ result' = r.res
          /\ stream' = r.st
          /\ locals' = [symbol |-> r.symbol]
    /\ pc' = "done"
    /\ UNCHANGED <<reader, decoder, input, pool, global_channel>>

SpecHuff == InitHuff /\ [][DecodeSymbol]_vars

\* The 16 bits presented start with the code of the symbol at index p - 1.
StartsWithCode(c, p, bits) ==
    SubSeq(bits, 1, c.size[p]) = BitsOf(c.huff_code[p], c.size[p])

\* C13: bits that start with the canonical code of values[p] decode to
\* values[p] and cost exactly the length of that code, for codes of 1..9
\* bits and of 10..16 bits; bits that do not start with it do not decode to
\* values[p].
C13_DecodeInvertsCanonicalCode ==
    pc = "done" /\ input.kind = "HUFF" =>
        \A p \in 1..Len(HuffCases[input.t].size) :
            /\ StartsWithCode(HuffCases[input.t], p, input.bits) =>
                  /\ result = "Ok"
                  /\ locals.symbol = p
                  /\ 32 - stream.bits_left = HuffCases[input.t].size[p]
            /\ result = "Ok" /\ locals.symbol = p =>
                  StartsWithCode(HuffCases[input.t], p, input.bits)

\* ---- HUFF_EXTEND ----
\* Every size s of 1..16 bits and every value v that s bits can hold.
ExtendInputs ==
    UNION {[kind : {"EXT"}, s : {s}, v : 0..(Pow2(s) - 1)] : s \in 1..16}

InitExtend ==
    /\ input \in ExtendInputs
    /\ reader = [buf |-> <<>>, pos |-> 0]
    /\ decoder = NewDecoder(16, 16)
    /\ result = "none"
    /\ pc = "extend"
    /\ NoMcu

\* symbol = huff_extend(r, symbol) of decode_dc.
Extend ==
    /\ pc = "extend"
    /\ locals' = [symbol |-> huff_extend(input.v, input.s)]
    /\ result' = "Ok"
    /\ pc' = "done"
    /\ UNCHANGED <<reader, decoder, input, stream, pool, global_channel>>

SpecExtend == InitExtend /\ [][Extend]_vars

MaxOps == 6

\* Entropy-coded bytes that end in a marker: without and with stuffed 0xFF
\* bytes, with an RSTm and bytes after it, with a marker at the very start.
BitsStreams ==
    { <<165, 60, 15, 129, 90, 195, 126, 255, 217>>,
      <<165, 255, 0, 60, 255, 208, 90, 102, 18, 52, 86, 255, 217>>,
      <<255, 208, 129, 66, 36, 24, 153, 255, 217>>,
      <<165, 255, 217>>,
      <<18, 52, 86, 120, 154, 188, 222, 240, 17, 255, 217>>,
      <<128, 127, 255, 0, 255, 0, 1, 255, 208, 255, 0, 255, 217>> }

BitsInputs == [kind : {"BITS"}, bytes : BitsStreams]

\* What the caller did last: the operation, its bit count, the bits it got,
\* and what held before it: the number of buffered bits that came from the
\* input, whether a marker was pending, the position of the reader.
LastOp(op, n, bits) ==
    [op |-> op, n |-> n, bits |-> bits, real |-> locals.real,
     pending |-> stream.marker # None, pos |-> reader.pos]

InitBits ==
    /\ input \in BitsInputs
    /\ reader = [buf |-> input.bytes, pos |-> 0]
    /\ decoder = NewDecoder(16, 16)
    /\ result = "none"
    /\ pc = "bits"
    /\ stream = BitStream_new
    /\ locals = [ops |-> 0, real |-> 0,
                 last |-> [op |-> "new", n |-> 0, bits |-> 0, real |-> 0,
                           pending |-> FALSE, pos |-> 0]]
    /\ pool = <<>>
    /\ global_channel = NoChannel

BitsReady == pc = "bits" /\ locals.ops < MaxOps

Refill ==
    /\ BitsReady
    /\ \E r \in {refill(stream, reader)} :
          /\ stream' = r.st
          /\ reader' = r.rd
          /\ result' = IF r.res = "Ok" THEN result ELSE r.res
          /\ pc' = IF r.res = "Ok" THEN "bits" ELSE "failed"
          /\ locals' = [ops |-> locals.ops + 1,
                        real |-> IF stream.marker = None
                                 THEN locals.real + (r.st.bits_left - stream.bits_left)
                                 ELSE locals.real,
                        last |-> LastOp("refill", 0, 0)]
    /\ UNCHANGED <<decoder, input, pool, global_channel>>

PeekBits(n) ==
    /\ BitsReady
    /\ locals' = [locals EXCEPT !.ops = locals.ops + 1,
                                !.last = LastOp("peek_bits", n, peek_bits(stream, n))]
    /\ UNCHANGED <<reader, decoder, result, pc, input, stream, pool, global_channel>>

DropBits(n) ==
    /\ BitsReady
    /\ stream' = drop_bits(stream, n)
    /\ locals' = [ops |-> locals.ops + 1, real |-> saturating_sub(locals.real, n),
                  last |-> LastOp("drop_bits", n, 0)]
    /\ UNCHANGED <<reader, decoder, result, pc, input, pool, global_channel>>

GetBits(n) ==
    /\ BitsReady
    /\ \E r \in {get_bits(stream, n)} :
          /\ stream' = r.st
          /\ locals' = [ops |-> locals.ops + 1,
                        real |-> saturating_sub(locals.real, n),
                        last |-> LastOp("get_bits", n, r.bits)]
    /\ UNCHANGED <<reader, decoder, result, pc, input, pool, global_channel>>

GetBit ==
    /\ BitsReady
    /\ \E r \in {get_bit(stream)} :
          /\ stream' = r.st
          /\ locals' = [ops |-> locals.ops + 1,
                        real |-> saturating_sub(locals.real, 1),
                        last |-> LastOp("get_bit", 1, r.bits)]
    /\ UNCHANGED <<reader, decoder, result, pc, input, pool, global_channel>>

Reset ==
    /\ BitsReady
    /\ stream' = reset(stream)
    /\ locals' = [ops |-> locals.ops + 1, real |-> 0, last |-> LastOp("reset", 0, 0)]
    /\ UNCHANGED <<reader, decoder, result, pc, input, pool, global_channel>>

NextBits ==
    \/ Refill
    \/ PeekBits(16)
    \/ \E n \in {3, 16} : DropBits(n)
    \/ \E n \in {5, 16} : GetBits(n)
    \/ GetBit
    \/ Reset

SpecBits == InitBits /\ [][NextBits]_vars

\* C16: in every state reached by refill, peek_bits, drop_bits, get_bits,
\* get_bit and reset, bits_left is at most 64 and, when bits_left > 0,
\* aligned_buffer is buffer << (64 - bits_left).
C16_AlignedBufferInvariant ==
    input.kind = "BITS" =>
        /\ stream.bits_left <= 64
        /\ stream.bits_left > 0 =>
              stream.aligned_buffer = Shl(stream.buffer, 64 - stream.bits_left)

\* The reader stands right behind the two bytes of the pending marker.
MarkerAtPosition ==
    /\ reader.pos >= 2 /\ reader.pos <= Len(reader.buf)
    /\ reader.buf[reader.pos - 1] = 255
    /\ Marker_from_u8(reader.buf[reader.pos]) = stream.marker

\* C17: once a marker is pending, no refill advances the input position or
\* appends bytes until reset; the byte after the marker code is not consumed.
C17_NoReadPastMarker ==
    [][input.kind = "BITS" /\ stream.marker # None /\ pc' = "bits" =>
          \/ locals'.last.op = "reset" /\ stream'.marker = None
          \/ /\ reader' = reader
             /\ stream'.buffer = stream.buffer
             /\ stream'.marker = stream.marker
             /\ MarkerAtPosition]_vars

\* A refill has run with a marker pending and bytes left behind the marker.
C17_Witness ==
    /\ input.kind = "BITS"
    /\ locals.last.op = "refill" /\ locals.last.pending
    /\ stream.marker # None /\ stream.bits_left = 63
    /\ reader.pos < Len(reader.buf)

\* C18: after a marker is latched and the bits buffered before it are used
\* up, every bit peek_bits, get_bits and get_bit return is 0 until reset.
C18_ZeroBitsAfterMarker ==
    /\ input.kind = "BITS"
    /\ locals.last.op \in {"peek_bits", "get_bits", "get_bit"}
    /\ locals.last.pending /\ locals.last.real = 0
    => locals.last.bits = 0

\* The next entropy-coded bytes of the input, at most n of them, read as the
\* format defines them: a byte other than 0xFF stands for itself, the pair
\* FF 00 for the byte FF, and FF with another code is a marker, which ends
\* the bytes.  end: the input ran out first.
RECURSIVE EntropyBytes(_, _, _, _)
EntropyBytes(buf, pos, n, bytes) ==
    IF n = 0 THEN [bytes |-> bytes, pos |-> pos, marker |-> None, end |-> FALSE]
    ELSE IF pos + 1 > Len(buf)
    THEN [bytes |-> bytes, pos |-> pos, marker |-> None, end |-> TRUE]
    ELSE IF buf[pos + 1] # 255
    THEN EntropyBytes(buf, pos + 1, n - 1, Append(bytes, buf[pos + 1]))
    ELSE IF pos + 2 > Len(buf)
    THEN [bytes |-> bytes, pos |-> pos, marker |-> None, end |-> TRUE]
    ELSE IF buf[pos + 2] = 0
    THEN EntropyBytes(buf, pos + 2, n - 1, Append(bytes, 255))
    ELSE [bytes |-> bytes, pos |-> pos + 2,
          marker |-> Marker_from_u8(buf[pos + 2]), end |-> FALSE]

\* The word w with the bytes appended at its low end.
RECURSIVE AppendBytes(_, _)
AppendBytes(w, bytes) ==
    IF bytes = <<>> THEN w
    ELSE AppendBytes(OrLow(Shl(w, 8), ByteBits(Head(bytes))), Tail(bytes))

\* A refill is due and will read.
RefillDue ==
    /\ input.kind = "BITS" /\ pc = "bits"
    /\ stream.marker = None /\ stream.bits_left <= 32

MaxBlocks == 4

\* A DC table with the codes 00, 01, 10 and 110 for the sizes 0, 2, 11, 15.
DcScanSizes == <<0, 2, 11, 15>>

DcScanTable ==
    HuffmanTable_new(HuffBits(<< <<2, 3>>, <<3, 1>> >>),
                     [i \in 0..255 |-> IF i < 4 THEN DcScanSizes[i + 1] ELSE 0],
                     TRUE).table

\* The code and the extra bits of a DC difference.
DcScanBits(diff) ==
    CASE diff = 0 -> <<0, 0>>
      [] Abs(diff) < 4 ->
            <<0, 1>> \o BitsOf(IF diff >= 0 THEN diff ELSE diff + 3, 2)
      [] Abs(diff) < 2048 ->
            <<1, 0>> \o BitsOf(IF diff >= 0 THEN diff ELSE diff + 2047, 11)
      [] OTHER ->
            <<1, 1, 0>> \o BitsOf(IF diff >= 0 THEN diff ELSE diff + 32767, 15)

DcScanDiffs == {0, 3, -2, 1500, -20000}

\* Scans of MaxBlocks blocks, each with one of the differences, then EOI.
DcScanInputs == [kind : {"DCSCAN"}, diffs : [1..MaxBlocks -> DcScanDiffs]]

DcScanBytes(in) ==
    BytesOfBits(Concat([k \in 1..Len(in.diffs) |-> DcScanBits(in.diffs[k])]), 0)
        \o <<255, 217>>

InitDcScan ==
    /\ input \in DcScanInputs
    /\ reader = [buf |-> DcScanBytes(input), pos |-> 0]
    /\ decoder = NewDecoder(16, 16)
    /\ result = "none"
    /\ pc = "dc"
    /\ stream = BitStream_new
    /\ locals = [dc_pred |-> 0, blocks |-> <<>>]
    /\ pool = <<>>
    /\ global_channel = NoChannel

\* One block of a first DC scan with successive_low = 0.
DecodeDcFirst ==
    /\ pc = "dc"
    /\ \E r \in {decode_prog_dc_first(stream, reader, DcScanTable, locals.dc_pred, 0)} :
          /\ stream' = r.st
          /\ reader' = r.rd
          /\ locals' = IF r.res = "Ok"
                       THEN [dc_pred |-> r.dc, blocks |-> Append(locals.blocks, r.block)]
                       ELSE locals
          /\ result' = IF r.res # "Ok" THEN r.res
                       ELSE IF Len(locals.blocks) + 1 = Len(input.diffs) THEN "Ok"
                       ELSE result
          /\ pc' = IF r.res # "Ok" \/ Len(locals.blocks) + 1 = Len(input.diffs)
                   THEN "done" ELSE "dc"
    /\ UNCHANGED <<decoder, input, pool, global_channel>>

SpecDcScan == InitDcScan /\ [][DecodeDcFirst]_vars

\* The bit reader when decode_dc looks up the code: after the refill that
\* line 296 asks for, if it asks for one.
DcStart ==
    IF stream.bits_left < 16 THEN refill(stream, reader).st ELSE stream

\* The length of the code decode_huff! drops and the number of extra bits
\* get_bits reads, for the bits the reader st holds.
DcCodeLength(st) == DcScanTable.lookup[peek_bits(st, HUFF_LOOKAHEAD)] \div Pow2(HUFF_LOOKAHEAD)

DcExtraBits(st) == DcScanTable.lookup[peek_bits(st, HUFF_LOOKAHEAD)] % Pow2(HUFF_LOOKAHEAD)

\* C20: while no marker is pending and the input is not exhausted, every
\* drop_bits(n) and get_bits(n) of the DC decoding happens with
\* bits_left >= n, also when decode_dc starts with 16..31 bits and skips the
\* refill.
C20_EnoughBitsBuffered ==
    /\ input.kind = "DCSCAN" /\ pc = "dc"
    /\ DcStart.marker = None /\ reader.pos < Len(reader.buf)
    => /\ DcCodeLength(DcStart) <= DcStart.bits_left
       /\ DcExtraBits(DcStart) <= DcStart.bits_left - DcCodeLength(DcStart)


\* ---- One block whose first AC symbol is short enough for fast_ac ----
\* AC symbols (run << 4 | size) in the order of their codes of 2, 2, 3, 3,
\* 3, 4 and 5 bits: EOB, 0/1, 0/2, 1/1, 2/3, 15/7, ZRL.
FastAcSymbols == <<0, 1, 2, 17, 35, 247, 240>>

FastAcBits == HuffBits(<< <<2, 2>>, <<3, 3>>, <<4, 1>>, <<5, 1>> >>)

FastAcSize == huff_sizes(FastAcBits, 1)

FastAcCode == huff_gen_codes(FastAcSize, 0, 0, SizeAt(FastAcSize, 0), <<>>).huff_code

FastAcTable ==
    HuffmanTable_new(FastAcBits,
                     [i \in 0..255 |-> IF i < Len(FastAcSymbols)
                                       THEN FastAcSymbols[i + 1] ELSE 0],
                     FALSE).table

\* The table with every fast_ac entry zero: each symbol takes the slow path.
SlowAcTable == [FastAcTable EXCEPT !.ac_lookup = Some([i \in 0..511 |-> 0])]

\* The largest number of ZRL symbols before the symbol of a block.
MaxZrl == 3

\* A block: the DC difference diff, zrl times ZRL, the symbol p with the
\* extra bits v, then EOB.
FastAcInputs ==
    { in \in [kind : {"FASTAC"}, diff : {0, -2}, zrl : 0..MaxZrl,
              p : 1..Len(FastAcSymbols), v : 0..127] :
        in.v < Pow2(FastAcSymbols[in.p] % 16) }

FastAcStream(in) ==
    BytesOfBits(DcScanBits(in.diff)
                    \o Concat([k \in 1..in.zrl |-> BitsOf(FastAcCode[7], FastAcSize[7])])
                    \o BitsOf(FastAcCode[in.p], FastAcSize[in.p])
                    \o BitsOf(in.v, FastAcSymbols[in.p] % 16)
                    \o <<0, 0>>, 0) \o <<255, 217>>

InitFastAc ==
    /\ input \in FastAcInputs
    /\ reader = [buf |-> FastAcStream(input), pos |-> 0]
    /\ decoder = NewDecoder(8, 8)
    /\ result = "none"
    /\ pc = "block"
    /\ stream = BitStream_new
    /\ locals = [block |-> ZeroBlock, dc |-> 0]
    /\ pool = <<>>
    /\ global_channel = NoChannel

\* decode_mcu_block on the block of the input.
DecodeBlock ==
    /\ pc = "block"
    /\ \E r \in {decode_mcu_block(stream, reader, DcScanTable, FastAcTable,
                                  locals.block, locals.dc)} :
          /\ stream' = r.st
          /\ reader' = r.rd
          /\ locals' = [block |-> r.block, dc |-> r.dc]
          /\ result' = r.res
    /\ pc' = "done"
    /\ UNCHANGED <<decoder, input, pool, global_channel>>

SpecFastAc == InitFastAc /\ [][DecodeBlock]_vars

\* The window of the first AC symbol of the block.
FastAcWindow(in) ==
    peek_bits(drop_bits(refill(BitStream_new,
                               [buf |-> FastAcStream(in), pos |-> 0]).st,
                        Len(DcScanBits(in.diff))),
              HUFF_LOOKAHEAD)

\* The block as the slow path alone decodes it.
SlowBlock(in) ==
    decode_mcu_block(BitStream_new, [buf |-> FastAcStream(in), pos |-> 0],
                     DcScanTable, SlowAcTable, ZeroBlock, 0)

\* C21: whenever the window of an AC symbol has a non-zero fast_ac entry, the
\* run, the coefficient and the bit count unpacked from the entry are those of
\* the slow path on the same bits (the block and the bits consumed are those
\* of a decoder without fast_ac), and every entry is a 16-bit signed value.
C21_FastAcMatchesSlowPath ==
    /\ \A i \in 0..511 : Unwrap(FastAcTable.ac_lookup)[i] \in -32768..32767
    /\ (pc = "done" /\ Unwrap(FastAcTable.ac_lookup)[FastAcWindow(input)] # 0)
          => \E s \in {SlowBlock(input)} :
                /\ result = s.res
                /\ locals.block = s.block
                /\ stream.bits_left = s.st.bits_left
                /\ reader.pos = s.rd.pos


\* C23: after decode_mcu_block has returned Ok, block[0] is the updated DC
\* prediction (the previous one plus the difference, as a 16-bit value): no
\* AC coefficient has overwritten it, whatever position its zero run reached,
\* and the block still has its 64 entries.
C23_DcCoefficientKept ==
    (pc = "done" /\ result = "Ok") =>
        /\ locals.dc = input.diff
        /\ locals.block[0] = AsI16(locals.dc)
        /\ DOMAIN locals.block = 0..63

\* ---- One block of a first AC scan ----
\* The bands Ss..Se of the scans.
AcBands == {<<1, 5>>, <<1, 63>>, <<6, 63>>}

\* A block of a first AC scan of the band with successive_low = shift: zrl
\* times ZRL, the symbol p with the extra bits v, then EOB.
AcFirstInputs ==
    { in \in [kind : {"ACFIRST"}, band : AcBands, shift : 0..1, zrl : 0..MaxZrl,
              p : 1..Len(FastAcSymbols), v : 0..127] :
        in.v < Pow2(FastAcSymbols[in.p] % 16) }

AcFirstStream(in) ==
    BytesOfBits(Concat([k \in 1..in.zrl |-> BitsOf(FastAcCode[7], FastAcSize[7])])
                    \o BitsOf(FastAcCode[in.p], FastAcSize[in.p])
                    \o BitsOf(in.v, FastAcSymbols[in.p] % 16)
                    \o <<0, 0>>, 0) \o <<255, 217>>

\* The block when the AC scan begins: its DC coefficient is decoded.
AcFirstBlock == [ZeroBlock EXCEPT ![0] = 40]

InitAcFirst ==
    /\ input \in AcFirstInputs
    /\ reader = [buf |-> AcFirstStream(input), pos |-> 0]
    /\ decoder = NewDecoder(8, 8)
    /\ result = "none"
    /\ pc = "acfirst"
    /\ stream = BitStream_new
    /\ locals = [block |-> AcFirstBlock]
    /\ pool = <<>>
    /\ global_channel = NoChannel

\* decode_mcu_ac_first on the block of the input.
DecodeAcFirst ==
    /\ pc = "acfirst"
    /\ \E wrapping \in BOOLEAN :
       \E r \in {decode_mcu_ac_first(stream, reader, FastAcTable, locals.block,
                                     input.band[1], input.band[2], input.shift,
                                     wrapping)} :
          /\ stream' = r.st
          /\ reader' = r.rd
          /\ locals' = [block |-> r.block]
          /\ result' = r.res
    /\ pc' = "done"
    /\ UNCHANGED <<decoder, input, pool, global_channel>>

SpecAcFirst == InitAcFirst /\ [][DecodeAcFirst]_vars

\* C24: a first AC scan of the band spec_start..spec_end leaves block[0] and
\* every coefficient at a zig-zag position outside the band as it was, also
\* when a zero run carries the position past spec_end.
C24_OnlyBandModified ==
    pc = "done" =>
        \A zz \in 0..63 :
            (zz < input.band[1] \/ zz > input.band[2])
                => locals.block[UN_ZIGZAG[zz + 1]] = AcFirstBlock[UN_ZIGZAG[zz + 1]]

\* ---- A DC refinement scan ----
\* The number of blocks of the scan.
MaxRefines == 2

\* The DC coefficients before the scan, its successive_low, and its bits.
DcRefineInputs ==
    [kind : {"DCREFINE"}, al : 0..2, coefs : [1..MaxRefines -> {0, 4, 5, -6, 32767}],
     bits : [1..MaxRefines -> {0, 1}]]

InitDcRefine ==
    /\ input \in DcRefineInputs
    /\ reader = [buf |-> BytesOfBits(input.bits, 0) \o <<255, 217>>, pos |-> 0]
    /\ decoder = NewDecoder(8, 8)
    /\ result = "none"
    /\ pc = "refine"
    /\ stream = BitStream_new
    /\ locals = [blocks |-> <<>>]
    /\ pool = <<>>
    /\ global_channel = NoChannel

\* decode_prog_dc_refine on the next block of the scan.
DecodeDcRefine ==
    /\ pc = "refine"
    /\ \E wrapping \in BOOLEAN :
       \E r \in {decode_prog_dc_refine(stream, reader,
                                       input.coefs[Len(locals.blocks) + 1],
                                       input.al, wrapping)} :
          /\ stream' = r.st
          /\ reader' = r.rd
          /\ locals' = IF r.res = "Ok"
                       THEN [blocks |-> Append(locals.blocks, r.block)]
                       ELSE locals
          /\ result' = IF r.res # "Ok" THEN r.res
                       ELSE IF Len(locals.blocks) + 1 = MaxRefines THEN "Ok"
                       ELSE result
          /\ pc' = IF r.res # "Ok" \/ Len(locals.blocks) + 1 = MaxRefines
                   THEN "done" ELSE "refine"
    /\ UNCHANGED <<decoder, input, pool, global_channel>>

SpecDcRefine == InitDcRefine /\ [][DecodeDcRefine]_vars

\* a | (1 << n) for a 16-bit two's complement value a.
OrBit(a, n) ==
    IF ((a + 65536) \div Pow2(n)) % 2 = 1 THEN a ELSE a + Pow2(n)

\* C25: a DC refinement reads one bit per block; with the bit 1 the new
\* coefficient is the old one OR (1 << successive_low), with the bit 0 it is
\* the old one, so a coefficient whose bit is set already does not change.
C25_RefineOrsOneBit ==
    /\ result \in {"none", "Ok"}
    /\ \A k \in 1..Len(locals.blocks) :
          locals.blocks[k] = IF input.bits[k] = 1
                             THEN OrBit(input.coefs[k], input.al)
                             ELSE input.coefs[k]

\* ---- The scan parameters of an SOS header ----
\* Ss, Se, Ah and Al as the header gives them are those of a legal scan.
SosParamsLegal(in) ==
    /\ in.params[1] <= in.params[2] /\ in.params[2] <= 63
    /\ in.params[3] % 16 <= 13
    /\ in.params[3] \div 16 \in {0, (in.params[3] % 16) + 1}

\* C26: after a successful parse_sos, 0 <= spec_start <= spec_end <= 63,
\* succ_low <= 13 and succ_high is 0 or succ_low + 1; a header whose bytes
\* violate this is refused with an error, its values are not masked into
\* range.
C26_ScanParametersLegal ==
    (SosDone /\ result = "Ok") =>
        /\ 0 <= decoder.spec_start /\ decoder.spec_start <= decoder.spec_end
        /\ decoder.spec_end <= 63
        /\ decoder.succ_low <= 13
        /\ decoder.succ_high \in {0, decoder.succ_low + 1}
        /\ SosParamsLegal(input)

\* ---- The number of MCUs of a baseline decode ----
\* C27: a baseline decode that returns Ok has run the loop over the
\* components (each component's h x v blocks) once for each of the
\* mcu_x * mcu_y MCUs of the frame: every row it dispatched holds
\* bias * mcu_width MCUs.
C27_EveryMcuDecoded ==
    (pc = "done" /\ result = "Ok") =>
        locals.rows * locals.bias * locals.mcu_width = decoder.mcu_x * decoder.mcu_y

\* ---- The chunks of the pixel buffer ----
\* Images of zero coefficients, some wider than tall, in every sampling
\* scheme.
ChunkInputs ==
    [kind : {"MCU"}, nf : {3}, scheme : {"11", "21", "12", "22"},
     width : {8, 24}, height : {16, 17}, out : {"RGB", "GRAYSCALE"},
     dri : {0}, dcs : {"zero"}, bad : {-1}, miss : {"dc"}, stuff : {0}]

InitChunks == \E in \in ChunkInputs : InitMcu(in)

SpecChunks == InitChunks /\ [][NextMcu]_vars

\* C28: every MCU row that has been decoded finds a chunk of its own (the
\* request for the next chunk does not fail), and no two tasks hold the same
\* chunk.
C28_ChunkForEveryRow ==
    /\ (/\ pc = "rows"
        /\ locals.rows < locals.mcu_height
        /\ decode_mcu_row([st |-> stream, rd |-> reader, dec |-> decoder],
                          locals, 0).res = "Ok")
          => locals.rows < locals.chunks
    /\ \A k, l \in 1..Len(pool) :
          /\ pool[k].chunk \in 1..locals.chunks
          /\ k # l => pool[k].chunk # pool[l].chunk

\* ---- The tables and components the MCU loop reads ----
\* 8x8 to 16x16 images of one to four components without subsampling, whose
\* scan names the first three components at most; gone: the table slot
\* emptied before the decode ("none": no slot).
TableInputs ==
    [kind : {"MCU"}, nf : 1..MAX_COMPONENTS, scheme : {"11"}, width : {8, 16},
     height : {8, 16}, out : {"RGB", "GRAYSCALE"}, dri : {0}, dcs : {"zero"},
     bad : {-1}, miss : {"dc"}, stuff : {0}, gone : {"none", "dc", "ac"}]

\* The frame header and the scan header of the input, as parse_start_of_frame
\* and parse_sos leave them.
TableFrame(in) ==
    parse_start_of_frame(
        SofBytes([kind |-> "SOF", precision |-> 8, height |-> in.height,
                  width |-> in.width, nf |-> in.nf, dlen |-> 0,
                  scheme |-> in.scheme, ids |-> "seq", qts |-> "all", cut |-> 0]),
        [McuTables EXCEPT !.output_colorspace = in.out])

TableScan(in) ==
    parse_sos(SosBytes([kind |-> "SOS", nf |-> in.nf,
                        ids |-> [i \in 1..Min(in.nf, 3) |-> i], dlen |-> 0,
                        params |-> <<0, 63, 0>>]),
              TableFrame(in).img)

TableDecoder(in) ==
    CASE in.gone = "dc" -> [TableScan(in).img EXCEPT !.dc_huffman_tables[0] = None]
      [] in.gone = "ac" -> [TableScan(in).img EXCEPT !.ac_huffman_tables[1] = None]
      [] OTHER -> TableScan(in).img

InitTables ==
    /\ input \in TableInputs
    /\ decoder = TableDecoder(input)
    /\ reader = [buf |-> ScanOf(input, TableScan(input).img), pos |-> 0]
    /\ stream = BitStream_new
    /\ locals = <<>>
    /\ pool = <<>>
    /\ global_channel = NoChannel
    /\ result = "none"
    /\ pc = "setup"

SpecTables == InitTables /\ [][NextMcu]_vars

\* C29: for a frame that was accepted, the input colour space names no more
\* components than the frame header declared (Nf = 2 and 4 included), and
\* when check_tables returns Ok every component and every DC and AC table
\* the MCU loop reads without a check exists.
C29_TablesAndComponentsExist ==
    (TableFrame(input).res = "Ok" /\ TableScan(input).res = "Ok") =>
        /\ num_components(decoder.input_colorspace) <= Len(decoder.components)
        /\ check_tables(decoder) = "Ok" =>
              \A pos \in 0..(num_components(decoder.input_colorspace) - 1) :
                  /\ pos < Len(decoder.components)
                  /\ ~table_missing(decoder.dc_huffman_tables,
                                    decoder.components[pos + 1].dc_huff_table)
                  /\ ~table_missing(decoder.ac_huffman_tables,
                                    decoder.components[pos + 1].ac_huff_table)

\* ---- Scans that end early ----
\* The number of bytes of the scan that a truncated input keeps.
MaxKept == 2

\* Images with and without subsampling and restart interval whose scan is
\* whole (kept = -1) or cut after kept bytes, and whose byte 0xFF in the
\* first MCU (dcs = "ff") is followed by a stuffing byte, RST0 or DHT.
TruncInputs ==
    [kind : {"MCU"}, nf : {3}, scheme : {"11", "22"}, width : {8, 24},
     height : {16, 17}, out : {"RGB"}, dri : {0, 1}, dcs : {"alt", "ff"},
     bad : {-1}, miss : {"dc"}, stuff : {0, 208, 196}, kept : {-1, 0, MaxKept}]

TruncScan(in) ==
    IF in.kept < 0 THEN ScanOf(in, McuDecoder(in))
    ELSE Take(ScanOf(in, McuDecoder(in)), in.kept)

InitTrunc ==
    /\ input \in TruncInputs
    /\ decoder = McuDecoder(input)
    /\ reader = [buf |-> TruncScan(input), pos |-> 0]
    /\ stream = BitStream_new
    /\ locals = <<>>
    /\ pool = <<>>
    /\ global_channel = NoChannel
    /\ result = "none"
    /\ pc = "setup"

\* DecodeRow can be taken: its guard (the step always changes the state).
RowDue == pc = "rows" /\ locals.rows < locals.mcu_height

\* The decoding thread goes on and the pool runs every task it was handed:
\* weak fairness of every step, that of DecodeRow written with its guard.
SpecTrunc ==
    /\ InitTrunc /\ [][NextMcu]_vars
    /\ WF_vars(Setup)
    /\ ([]<>(~RowDue) \/ []<><<DecodeRow>>_vars)
    /\ WF_vars(\E k \in 1..Len(pool) : Worker(k))
    /\ WF_vars(Join)

\* C30: the baseline decode of any input, truncated ones and ones with a
\* marker in the middle of the scan included, comes to its end, with the
\* pixel buffer or an error value, after at most mcu_x * mcu_y MCUs.
C30_DecodeTerminates ==
    /\ <>(pc = "done")
    /\ [](pc = "done" => result \in {"Ok"} \cup ErrorValues)
    /\ [](locals # <<>> =>
            locals.rows * locals.bias * locals.mcu_width
                <= decoder.mcu_x * decoder.mcu_y)

\* ---- Huffman tables that cannot be built ----
\* No code of the table is the prefix of another one.
PrefixFree(table) ==
    LET size == huff_sizes(table.bits, 1)
        code == huff_gen_codes(size, 0, 0, SizeAt(size, 0), <<>>).huff_code
    IN  \A p, q \in 1..Len(size) :
            (p # q /\ size[p] <= size[q])
                => code[q] \div Pow2(size[q] - size[p]) # code[p]

\* C22: a table that cannot be built (counts that need a code which does not
\* fit its length, the all-ones code included, or a DC symbol above 15) makes
\* parse_huffman return a HuffmanDecode error value, never a panic, and every
\* table that is built is prefix-free.
C22_BadTableIsErrorValue ==
    DhtDone =>
        /\ result # "Panic"
        /\ (DhtWellFormed(input) /\ ~DhtLegal(input)) => result = "HuffmanDecode"
        /\ \A class \in 0..1, d \in 0..(MAX_COMPONENTS - 1) :
              DhtSlot(decoder, class, d) # None
                  => PrefixFree(Unwrap(DhtSlot(decoder, class, d)))
====
